---- MODULE Spec2Model ----
(***************************************************************************)
(* pixelpilot_stripped_rk2: the pipeline lifecycle and the recorder slot   *)
(* (pipeline.c), the supervisor loop and the single-instance guard         *)
(* (main.c), the UDP ingress (udp_receiver.c) and the configuration        *)
(* (config.c, config_ini.c) as state machines.                             *)
(*                                                                         *)
(* Specifications:                                                         *)
(*   Spec        any sequence of calls of the pipeline API by one driver   *)
(*               thread (plus a start attempted from a second thread while *)
(*               a stop is in progress), with the Bus Monitor, the AU      *)
(*               Consumer and the ingress worker running concurrently.     *)
(*   MainSpec    main(): the supervisor loop driven by signals, with weak  *)
(*               fairness on every thread of the process.                  *)
(*   GuardSpec   ensure_single_instance run by concurrently starting       *)
(*               processes on one PID file.                                *)
(*   IngressSpec receiver_thread: datagrams, the buffer pool and the       *)
(*               pending-bytes level of the streaming source.              *)
(*   FilterSpec  payload_type_matches applied to every short datagram for  *)
(*               a range of configured payload types.                      *)
(*   RecSpec     the recording API called from the main thread while the   *)
(*               AU Consumer delivers access units and a stop tears down.  *)
(*   ConfigSpec  parse_cli over command lines and INI files, and the       *)
(*               record-mode names parsed and printed.                     *)
(*   SinkSpec    appsink_thread_func: access units through the bounded     *)
(*               sink queue to the recorder and the decoder.               *)
(*   RxSpec      udp_receiver_start and udp_receiver_stop called in any    *)
(*               order, each system call succeeding or failing.            *)
(*   WorkerSpec  the end of pipeline_start, the loops of the three         *)
(*               workers, iteration by iteration, and the steps of         *)
(*               pipeline_stop, with the pipeline mutex.                   *)
(*   SignalSpec  SIGUSR1 and SIGUSR2 arriving while the main loop sleeps   *)
(*               and serves the two recording flags.                       *)
(***************************************************************************)
EXTENDS Integers, Sequences, FiniteSets, TLC

(***************************************************************************)
(* Bounds of the model.                                                    *)
(***************************************************************************)
\* Starts attempted from a second thread while a stop is in progress.
MaxConcurrentStarts == 1
\* Cap of the two recording signal counters (sig_atomic_t, incremented).
MaxSigCount == 1
\* Processes racing through the single-instance guard.
NumProcs == 3
\* Datagrams the model lets the source hold beyond the 8 MiB watermark.
MaxOverWatermark == 2

VARIABLES
    \* PipelineState (pipeline.h): a record with the struct's fields
    ps,
    \* UdpReceiver as pipeline.c sees it: running, stop_requested, sockfd, thread
    ur,
    \* position of the Bus Monitor, the AU Consumer and the ingress worker
    bpc, apc, rpc,
    \* GStreamer state of the graph ps->pipeline ("NULL" or "PLAYING")
    gst_state,
    \* objects created by the running pipeline_start and not yet stored in ps
    loc,
    \* objects no pointer refers to any more and that were never destroyed
    leaked,
    \* the calling thread: position, return addresses, last return value
    pc, stack, rc,
    \* history: the last API call that returned, whether stop_bus_thread's wait
    \* timed out in the current stop, the had_error poll_child recorded
    last_call, wait_timed_out, had_error,
    \* starts issued by a second thread, the value the last one returned, and
    \* (history) the states in which a pipeline_start has been refused
    n_conc, rc2, refused_in,
    \* main.c: the signal flags, cfg.record.enable, the process exit status
    g_exit_flag, g_restart_flag, g_start_record_flag, g_stop_record_flag,
    cfg_record_enable, exit_status, sig_thread_alive,
    \* single-instance guard: the PID file and the starting processes
    pidfile, proc,
    \* ingress data path
    ing,
    \* the payload filter applied to one datagram
    flt,
    \* the recorder slot of PipelineState, the writers and the threads using it
    rec,
    \* parse_cli: the command line, the INI file and the resulting AppCfg
    cli,
    \* the AU sink, the AU Consumer and the collaborators it delivers to
    sink,
    \* a UdpReceiver (udp_receiver.c) and the thread calling its API
    rx,
    \* the three worker loops and the pipeline_stop that ends them
    wk,
    \* the recording signals and the part of the main loop that serves them
    sg

lifeVars  == <<ps, ur, bpc, apc, rpc, gst_state, loc, leaked, pc, stack, rc,
               last_call, wait_timed_out, had_error>>
concVars  == <<n_conc, rc2, refused_in>>
mainVars  == <<g_exit_flag, g_restart_flag, g_start_record_flag,
               g_stop_record_flag, cfg_record_enable, exit_status,
               sig_thread_alive>>
guardVars == <<pidfile, proc>>
ingVars   == <<ing>>
pathVars  == <<sink, rx, wk, sg>>
unitVars  == <<flt, rec, cli, pathVars>>
vars == <<lifeVars, concVars, mainVars, guardVars, ingVars, unitVars>>

(***************************************************************************)
(* PipelineState after `PipelineState ps = {0}; ps.state = STOPPED`.       *)
(* Pointers are modelled by whether they are non-NULL.                     *)
(***************************************************************************)
PipelineState0 ==
    [state |-> "STOPPED", pipeline |-> FALSE, appsink |-> FALSE,
     udp_receiver |-> FALSE, bus_thread |-> FALSE, appsink_thread |-> FALSE,
     bus_thread_running |-> FALSE, appsink_thread_running |-> FALSE,
     stop_requested |-> FALSE, encountered_error |-> FALSE,
     decoder |-> FALSE, decoder_initialized |-> FALSE,
     decoder_running |-> FALSE, recorder |-> FALSE]

\* udp_receiver_create: sockfd = -1, not running, no thread
UdpReceiver0 ==
    [running |-> FALSE, stop_requested |-> FALSE, sock_open |-> FALSE,
     thread |-> FALSE]

LifeInit ==
    /\ ps = PipelineState0
    /\ ur = UdpReceiver0
    /\ bpc = "none" /\ apc = "none" /\ rpc = "none"
    /\ gst_state = "NULL"
    /\ loc = {} /\ leaked = {}
    /\ rc = 0
    /\ last_call = "none" /\ wait_timed_out = FALSE /\ had_error = FALSE

\* The caller's stack: a call pushes its return address.
Call(entry, ret) == pc' = entry /\ stack' = <<ret>> \o stack
Return == pc' = Head(stack) /\ stack' = Tail(stack)

(***************************************************************************)
(* pipeline_start                                                          *)
(***************************************************************************)
\* Mutant: the guard tests for RUNNING only
pipeline_start_refuses_running_only(s) == s = "RUNNING"

\* `if (ps->state != PIPELINE_STOPPED) return -1;`
pipeline_start_refuses(s) == s # "STOPPED"

\* lines 243-252: the fields pipeline_start resets before building
pipeline_start_reset(p) ==
    [p EXCEPT !.pipeline = FALSE, !.appsink = FALSE, !.udp_receiver = FALSE,
              !.bus_thread = FALSE, !.appsink_thread = FALSE,
              !.bus_thread_running = FALSE, !.appsink_thread_running = FALSE,
              !.stop_requested = FALSE, !.encountered_error = FALSE]

pipeline_start_guard ==
    /\ pc = "start_entry"
    /\ IF pipeline_start_refuses(ps.state)
       THEN /\ rc' = -1
            /\ last_call' = "start"
            /\ refused_in' = refused_in \cup {ps.state}
            /\ Return
            /\ UNCHANGED ps
       ELSE /\ ps' = pipeline_start_reset(ps)
            /\ pc' = "start_build"
            /\ UNCHANGED <<stack, rc, last_call, refused_in>>
    /\ UNCHANGED <<ur, bpc, apc, rpc, gst_state, loc, leaked, wait_timed_out,
                   had_error>>

\* What the graph construction of lines 254-325 has created when it fails at
\* each point. create_udp_app_source undoes its own work on failure; the six
\* gst_element_factory_make calls all run before the first CHECK_ELEM.
BuildOutcomes == {"ok", "pipeline", "appsrc", "element", "caps", "link"}
BuildCreated(o) ==
    CASE o = "pipeline" -> {}
      [] o = "appsrc"   -> {"pipeline"}
      [] OTHER          -> {"pipeline", "appsrc", "receiver", "elements"}

\* lines 327-329: the graph, the sink and the ingress become ps's
pipeline_start_adopt(p) ==
    [p EXCEPT !.pipeline = TRUE, !.appsink = TRUE, !.udp_receiver = TRUE]

pipeline_start_build ==
    /\ pc = "start_build"
    /\ \E o \in BuildOutcomes :
         IF o = "ok"
         THEN /\ ps' = pipeline_start_adopt(ps)
              /\ ur' = UdpReceiver0
              /\ loc' = {}
              /\ pc' = "start_ingress"
         ELSE /\ loc' = BuildCreated(o)
              /\ pc' = "start_fail"
              /\ UNCHANGED <<ps, ur>>
    /\ UNCHANGED <<bpc, apc, rpc, gst_state, leaked, stack, rc, last_call,
                   wait_timed_out, had_error>>

\* udp_receiver_start (udp_receiver.c 200-267) as pipeline_start calls it
IngressOutcomes == {"ok", "socket", "bind", "thread"}
udp_receiver_start ==
    /\ pc = "start_ingress"
    /\ \E o \in IngressOutcomes :
         IF o = "ok"
         THEN /\ ur' = [ur EXCEPT !.stop_requested = FALSE, !.sock_open = TRUE,
                                  !.running = TRUE, !.thread = TRUE]
              /\ rpc' = "loop"
              /\ pc' = "start_playing"
         ELSE \* socket()/bind() failed: the fd is closed, ur is untouched;
              \* g_thread_new failed: running = FALSE, fd closed, sockfd = -1
              /\ ur' = [ur EXCEPT !.stop_requested = FALSE]
              /\ pc' = "start_fail"
              /\ UNCHANGED rpc
    /\ UNCHANGED <<ps, bpc, apc, gst_state, loc, leaked, stack, rc, last_call,
                   wait_timed_out, had_error>>

\* lines 336-349: gst_element_set_state(PLAYING) and the async wait
pipeline_start_playing ==
    /\ pc = "start_playing"
    /\ \/ /\ gst_state' = "PLAYING"
          /\ pc' = "start_decoder"
       \/ /\ pc' = "start_fail"
          /\ UNCHANGED gst_state
    /\ UNCHANGED <<ps, ur, bpc, apc, rpc, loc, leaked, stack, rc, last_call,
                   wait_timed_out, had_error>>

\* lines 351-369: video_decoder_new / _init / _start
DecoderOutcomes == {"ok", "new", "init", "start"}
pipeline_start_decoder ==
    /\ pc = "start_decoder"
    /\ \E o \in DecoderOutcomes :
         /\ ps' = [ps EXCEPT !.decoder = (o # "new"),
                             !.decoder_initialized = (o \in {"ok", "start"}),
                             !.decoder_running = (o = "ok")]
         /\ pc' = IF o = "ok" THEN "start_appsink_thread" ELSE "start_fail"
    /\ UNCHANGED <<ur, bpc, apc, rpc, gst_state, loc, leaked, stack, rc,
                   last_call, wait_timed_out, had_error>>

\* lines 371-375: g_thread_new("appsink-thread")
pipeline_start_appsink_thread ==
    /\ pc = "start_appsink_thread"
    /\ \/ /\ ps' = [ps EXCEPT !.appsink_thread = TRUE]
          /\ apc' = "spawned"
          /\ pc' = "start_bus_thread"
       \/ /\ pc' = "start_fail"
          /\ UNCHANGED <<ps, apc>>
    /\ UNCHANGED <<ur, bpc, rpc, gst_state, loc, leaked, stack, rc, last_call,
                   wait_timed_out, had_error>>

\* Mutant: the state becomes RUNNING without a Bus Monitor
pipeline_start_without_bus_thread ==
    /\ pc = "start_bus_thread"
    /\ pc' = "start_running"
    /\ UNCHANGED <<ps, ur, bpc, apc, rpc, gst_state, loc, leaked, stack, rc,
                   last_call, wait_timed_out, had_error>>

\* lines 377-381: g_thread_new("pipeline-bus")
pipeline_start_bus_thread ==
    /\ pc = "start_bus_thread"
    /\ \/ /\ ps' = [ps EXCEPT !.bus_thread = TRUE]
          /\ bpc' = "spawned"
          /\ pc' = "start_running"
       \/ /\ pc' = "start_fail"
          /\ UNCHANGED <<ps, bpc>>
    /\ UNCHANGED <<ur, apc, rpc, gst_state, loc, leaked, stack, rc, last_call,
                   wait_timed_out, had_error>>

\* lines 383-384
pipeline_start_running ==
    /\ pc = "start_running"
    /\ ps' = [ps EXCEPT !.state = "RUNNING"]
    /\ rc' = 0
    /\ last_call' = "start"
    /\ Return
    /\ UNCHANGED <<ur, bpc, apc, rpc, gst_state, loc, leaked, wait_timed_out,
                   had_error>>

\* fail: cleanup_pipeline(ps); return -1;
pipeline_start_fail ==
    /\ pc = "start_fail"
    /\ Call("cleanup_entry", "start_fail_ret")
    /\ UNCHANGED <<ps, ur, bpc, apc, rpc, gst_state, loc, leaked, rc, last_call,
                   wait_timed_out, had_error>>

\* The locals of the failed call go out of scope: what they pointed to and
\* cleanup_pipeline did not reach through ps is lost.
pipeline_start_fail_ret ==
    /\ pc = "start_fail_ret"
    /\ rc' = -1
    /\ last_call' = "start"
    /\ leaked' = leaked \cup loc
    /\ loc' = {}
    /\ Return
    /\ UNCHANGED <<ps, ur, bpc, apc, rpc, gst_state, wait_timed_out, had_error>>

(***************************************************************************)
(* udp_receiver_stop / udp_receiver_destroy (udp_receiver.c 269-321)       *)
(***************************************************************************)
\* lines 274-284: nothing to do unless running; else ask the worker to stop
udp_receiver_stop_needed(u) == u.running

\* Mutant: the socket is not closed
udp_receiver_stop_finish_no_close(u) ==
    [u EXCEPT !.thread = FALSE, !.running = FALSE, !.stop_requested = FALSE]

\* lines 286-299, once the worker has been joined
udp_receiver_stop_finish(u) ==
    [u EXCEPT !.thread = FALSE, !.sock_open = FALSE, !.running = FALSE,
              !.stop_requested = FALSE]

(***************************************************************************)
(* cleanup_pipeline (pipeline.c 446-493). g_thread_join blocks until the   *)
(* thread has returned: a join step is enabled only then.                  *)
(***************************************************************************)
\* Mutant: cleanup_pipeline does not wait for the AU Consumer
cleanup_skips_appsink_join ==
    /\ pc = "cleanup_entry"
    /\ pc' = "cleanup_bus"
    /\ UNCHANGED <<ps, ur, bpc, apc, rpc, gst_state, loc, leaked, stack, rc,
                   last_call, wait_timed_out, had_error>>

\* lines 451-454
cleanup_join_appsink ==
    /\ pc = "cleanup_entry"
    /\ IF ps.appsink_thread
       THEN /\ apc = "exited"
            /\ apc' = "none"
            /\ ps' = [ps EXCEPT !.appsink_thread = FALSE]
       ELSE UNCHANGED <<ps, apc>>
    /\ pc' = "cleanup_bus"
    /\ UNCHANGED <<ur, bpc, rpc, gst_state, loc, leaked, stack, rc, last_call,
                   wait_timed_out, had_error>>

cleanup_join_bus ==
    /\ pc = "cleanup_bus"
    /\ IF ps.bus_thread
       THEN /\ bpc = "exited"
            /\ bpc' = "none"
            /\ ps' = [ps EXCEPT !.bus_thread = FALSE]
       ELSE UNCHANGED <<ps, bpc>>
    /\ pc' = "cleanup_receiver"
    /\ UNCHANGED <<ur, apc, rpc, gst_state, loc, leaked, stack, rc, last_call,
                   wait_timed_out, had_error>>

\* udp_receiver_destroy: udp_receiver_stop first
cleanup_receiver_stop ==
    /\ pc = "cleanup_receiver"
    /\ IF ps.udp_receiver /\ udp_receiver_stop_needed(ur)
       THEN /\ ur' = [ur EXCEPT !.stop_requested = TRUE]
            /\ pc' = "cleanup_receiver_join"
       ELSE /\ pc' = "cleanup_receiver_free"
            /\ UNCHANGED ur
    /\ UNCHANGED <<ps, bpc, apc, rpc, gst_state, loc, leaked, stack, rc,
                   last_call, wait_timed_out, had_error>>

cleanup_receiver_join ==
    /\ pc = "cleanup_receiver_join"
    /\ rpc = "exited"
    /\ rpc' = "none"
    /\ ur' = udp_receiver_stop_finish(ur)
    /\ pc' = "cleanup_receiver_free"
    /\ UNCHANGED <<ps, bpc, apc, gst_state, loc, leaked, stack, rc, last_call,
                   wait_timed_out, had_error>>

\* udp_receiver_destroy's unref of appsrc and pool, g_free; ps->udp_receiver = NULL
cleanup_receiver_free ==
    /\ pc = "cleanup_receiver_free"
    /\ ps' = [ps EXCEPT !.udp_receiver = FALSE]
    /\ pc' = "cleanup_release"
    /\ UNCHANGED <<ur, bpc, apc, rpc, gst_state, loc, leaked, stack, rc,
                   last_call, wait_timed_out, had_error>>

\* lines 465-471: graph to NULL and unref; ps->appsink = NULL
cleanup_graph(p) == [p EXCEPT !.pipeline = FALSE, !.appsink = FALSE]

\* lines 473-484: video_decoder_stop, _deinit, _free
cleanup_decoder(p) ==
    [p EXCEPT !.decoder_running = FALSE, !.decoder_initialized = FALSE,
              !.decoder = FALSE]

\* lines 486-492: the recorder is detached under its lock and freed
cleanup_recorder(p) == [p EXCEPT !.recorder = FALSE]

cleanup_pipeline_graph ==
    /\ pc = "cleanup_release"
    /\ ps' = cleanup_graph(ps)
    /\ gst_state' = "NULL"
    /\ pc' = "cleanup_decoder"
    /\ UNCHANGED <<ur, bpc, apc, rpc, loc, leaked, stack, rc, last_call,
                   wait_timed_out, had_error>>

cleanup_pipeline_decoder ==
    /\ pc = "cleanup_decoder"
    /\ ps' = cleanup_decoder(ps)
    /\ pc' = "cleanup_recorder"
    /\ UNCHANGED <<ur, bpc, apc, rpc, gst_state, loc, leaked, stack, rc,
                   last_call, wait_timed_out, had_error>>

cleanup_pipeline_recorder ==
    /\ pc = "cleanup_recorder"
    /\ ps' = cleanup_recorder(ps)
    /\ Return
    /\ UNCHANGED <<ur, bpc, apc, rpc, gst_state, loc, leaked, rc, last_call,
                   wait_timed_out, had_error>>

(***************************************************************************)
(* pipeline_stop (pipeline.c 391-444)                                      *)
(***************************************************************************)
\* lines 421-428
pipeline_stop_mark ==
    /\ pc = "stop_entry"
    /\ wait_timed_out' = FALSE
    /\ IF ps.state = "STOPPED"
       THEN /\ last_call' = "stop"
            /\ Return
            /\ UNCHANGED ps
       ELSE /\ ps' = [ps EXCEPT !.state = "STOPPING", !.stop_requested = TRUE]
            /\ pc' = "stop_graph"
            /\ UNCHANGED <<stack, last_call>>
    /\ UNCHANGED <<ur, bpc, apc, rpc, gst_state, loc, leaked, rc, had_error>>

\* lines 430-433: EOS event into the graph, graph to NULL
pipeline_stop_graph ==
    /\ pc = "stop_graph"
    /\ gst_state' = IF ps.pipeline THEN "NULL" ELSE gst_state
    /\ pc' = "stop_ingress"
    /\ UNCHANGED <<ps, ur, bpc, apc, rpc, loc, leaked, stack, rc, last_call,
                   wait_timed_out, had_error>>

\* Mutant: the ingress is left running until cleanup_pipeline destroys it
pipeline_stop_skips_ingress ==
    /\ pc = "stop_ingress"
    /\ pc' = "stop_appsink"
    /\ UNCHANGED <<ps, ur, bpc, apc, rpc, gst_state, loc, leaked, stack, rc,
                   last_call, wait_timed_out, had_error>>

\* lines 435-437
pipeline_stop_ingress ==
    /\ pc = "stop_ingress"
    /\ IF ps.udp_receiver /\ udp_receiver_stop_needed(ur)
       THEN /\ ur' = [ur EXCEPT !.stop_requested = TRUE]
            /\ pc' = "stop_ingress_join"
       ELSE /\ pc' = "stop_appsink"
            /\ UNCHANGED ur
    /\ UNCHANGED <<ps, bpc, apc, rpc, gst_state, loc, leaked, stack, rc,
                   last_call, wait_timed_out, had_error>>

pipeline_stop_ingress_join ==
    /\ pc = "stop_ingress_join"
    /\ rpc = "exited"
    /\ rpc' = "none"
    /\ ur' = udp_receiver_stop_finish(ur)
    /\ pc' = "stop_appsink"
    /\ UNCHANGED <<ps, bpc, apc, gst_state, loc, leaked, stack, rc, last_call,
                   wait_timed_out, had_error>>

\* lines 391-396
stop_appsink_thread ==
    /\ pc = "stop_appsink"
    /\ IF ps.appsink_thread
       THEN /\ apc = "exited"
            /\ apc' = "none"
            /\ ps' = [ps EXCEPT !.appsink_thread = FALSE]
       ELSE UNCHANGED <<ps, apc>>
    /\ pc' = "stop_bus_wait"
    /\ UNCHANGED <<ur, bpc, rpc, gst_state, loc, leaked, stack, rc, last_call,
                   wait_timed_out, had_error>>

\* lines 398-410: wait on the condition until the Bus Monitor has cleared
\* bus_thread_running or the deadline passes (the deadline may pass at any
\* time: wait_ms_total is not modelled as a number)
stop_bus_thread_wait ==
    /\ pc = "stop_bus_wait"
    /\ IF ~ps.bus_thread
       THEN /\ pc' = "stop_cleanup"
            /\ UNCHANGED wait_timed_out
       ELSE /\ \/ /\ ~ps.bus_thread_running
                  /\ UNCHANGED wait_timed_out
               \/ /\ ps.bus_thread_running
                  /\ wait_timed_out' = TRUE
            /\ pc' = "stop_bus_join"
    /\ UNCHANGED <<ps, ur, bpc, apc, rpc, gst_state, loc, leaked, stack, rc,
                   last_call, had_error>>

\* lines 412-413: joined whether or not the wait timed out
stop_bus_thread_join ==
    /\ pc = "stop_bus_join"
    /\ bpc = "exited"
    /\ bpc' = "none"
    /\ ps' = [ps EXCEPT !.bus_thread = FALSE]
    /\ pc' = "stop_cleanup"
    /\ UNCHANGED <<ur, apc, rpc, gst_state, loc, leaked, stack, rc, last_call,
                   wait_timed_out, had_error>>

\* line 442
pipeline_stop_cleanup ==
    /\ pc = "stop_cleanup"
    /\ Call("cleanup_entry", "stop_stopped")
    /\ UNCHANGED <<ps, ur, bpc, apc, rpc, gst_state, loc, leaked, rc, last_call,
                   wait_timed_out, had_error>>

\* line 443
pipeline_stop_stopped ==
    /\ pc = "stop_stopped"
    /\ ps' = [ps EXCEPT !.state = "STOPPED"]
    /\ last_call' = "stop"
    /\ Return
    /\ UNCHANGED <<ur, bpc, apc, rpc, gst_state, loc, leaked, rc,
                   wait_timed_out, had_error>>

(***************************************************************************)
(* pipeline_poll_child (pipeline.c 495-519)                                *)
(***************************************************************************)
\* line 508: the teardown is entered when bus_thread_running reads FALSE
poll_child_tears_down(p) == ~p.bus_thread_running

pipeline_poll_child_check ==
    /\ pc = "poll_entry"
    /\ IF ps.bus_thread /\ poll_child_tears_down(ps)
       THEN /\ had_error' = ps.encountered_error
            /\ pc' = "poll_join"
            /\ UNCHANGED <<stack, last_call>>
       ELSE /\ last_call' = "poll"
            /\ Return
            /\ UNCHANGED had_error
    /\ UNCHANGED <<ps, ur, bpc, apc, rpc, gst_state, loc, leaked, rc,
                   wait_timed_out>>

\* lines 509-511
pipeline_poll_child_join ==
    /\ pc = "poll_join"
    /\ bpc = "exited"
    /\ bpc' = "none"
    /\ ps' = [ps EXCEPT !.bus_thread = FALSE]
    /\ Call("cleanup_entry", "poll_stopped")
    /\ UNCHANGED <<ur, apc, rpc, gst_state, loc, leaked, rc, last_call,
                   wait_timed_out, had_error>>

\* line 512
pipeline_poll_child_stopped ==
    /\ pc = "poll_stopped"
    /\ ps' = [ps EXCEPT !.state = "STOPPED"]
    /\ last_call' = "poll"
    /\ Return
    /\ UNCHANGED <<ur, bpc, apc, rpc, gst_state, loc, leaked, rc,
                   wait_timed_out, had_error>>

(***************************************************************************)
(* pipeline_enable_recording / pipeline_disable_recording (521-561)        *)
(***************************************************************************)
\* video_recorder_new may fail; an installed recorder is kept
pipeline_enable_recording(p, new_ok) ==
    IF new_ok THEN [p EXCEPT !.recorder = TRUE] ELSE p

pipeline_disable_recording(p) == [p EXCEPT !.recorder = FALSE]

(***************************************************************************)
(* bus_thread_func (pipeline.c 157-222)                                    *)
(***************************************************************************)
\* lines 159-172: gst_element_get_bus may return NULL
bus_thread_func_init ==
    /\ bpc = "spawned"
    /\ \/ /\ ps' = [ps EXCEPT !.bus_thread_running = TRUE]
          /\ bpc' = "loop"
       \/ /\ ps' = [ps EXCEPT !.encountered_error = TRUE,
                              !.bus_thread_running = FALSE]
          /\ bpc' = "exited"
    /\ UNCHANGED <<ur, apc, rpc, gst_state, loc, leaked, pc, stack, rc,
                   last_call, wait_timed_out, had_error>>

\* lines 176-182: gst_bus_timed_pop timed out
bus_thread_func_timeout ==
    /\ bpc = "loop"
    /\ bpc' = IF ps.stop_requested THEN "exit" ELSE "loop"
    /\ UNCHANGED <<ps, ur, apc, rpc, gst_state, loc, leaked, pc, stack, rc,
                   last_call, wait_timed_out, had_error>>

\* lines 185-208: the graph posted an error or end-of-stream
BusMessages == {"ERROR", "EOS"}
bus_thread_func_message ==
    /\ bpc = "loop"
    /\ \E m \in BusMessages :
         ps' = [ps EXCEPT !.stop_requested = TRUE,
                          !.encountered_error = (m = "ERROR") \/ @]
    /\ bpc' = "exit"
    /\ UNCHANGED <<ur, apc, rpc, gst_state, loc, leaked, pc, stack, rc,
                   last_call, wait_timed_out, had_error>>

\* lines 216-221
bus_thread_func_exit ==
    /\ bpc = "exit"
    /\ ps' = [ps EXCEPT !.bus_thread_running = FALSE]
    /\ bpc' = "exited"
    /\ UNCHANGED <<ur, apc, rpc, gst_state, loc, leaked, pc, stack, rc,
                   last_call, wait_timed_out, had_error>>

BusThread ==
    \/ bus_thread_func_init
    \/ bus_thread_func_timeout
    \/ bus_thread_func_message
    \/ bus_thread_func_exit

(***************************************************************************)
(* appsink_thread_func (pipeline.c 85-155)                                 *)
(***************************************************************************)
\* lines 87-97 (ps->appsink is set before the thread is spawned)
appsink_thread_func_init ==
    /\ apc = "spawned"
    /\ ps' = [ps EXCEPT !.appsink_thread_running = TRUE]
    /\ apc' = "loop"
    /\ UNCHANGED <<ur, bpc, rpc, gst_state, loc, leaked, pc, stack, rc,
                   last_call, wait_timed_out, had_error>>

\* line 110
appsink_thread_breaks(p) == p.stop_requested \/ ~p.decoder_running

\* lines 104-145: one iteration (the pull, the recorder and the feed change
\* no field of ps)
appsink_thread_func_loop ==
    /\ apc = "loop"
    /\ apc' = IF appsink_thread_breaks(ps) THEN "exit" ELSE "loop"
    /\ UNCHANGED <<ps, ur, bpc, rpc, gst_state, loc, leaked, pc, stack, rc,
                   last_call, wait_timed_out, had_error>>

\* lines 147-154: EOS to the decoder, appsink_thread_running = FALSE
appsink_thread_func_exit ==
    /\ apc = "exit"
    /\ ps' = [ps EXCEPT !.appsink_thread_running = FALSE]
    /\ apc' = "exited"
    /\ UNCHANGED <<ur, bpc, rpc, gst_state, loc, leaked, pc, stack, rc,
                   last_call, wait_timed_out, had_error>>

AppsinkThread ==
    \/ appsink_thread_func_init
    \/ appsink_thread_func_loop
    \/ appsink_thread_func_exit

(***************************************************************************)
(* receiver_thread as the lifecycle sees it (udp_receiver.c 98-104, 172):  *)
(* it samples stop_requested at the top of every iteration                 *)
(***************************************************************************)
receiver_thread_poll ==
    /\ rpc = "loop"
    /\ rpc' = IF ur.stop_requested THEN "exited" ELSE "loop"
    /\ UNCHANGED <<ps, ur, bpc, apc, gst_state, loc, leaked, pc, stack, rc,
                   last_call, wait_timed_out, had_error>>

Workers == BusThread \/ AppsinkThread \/ receiver_thread_poll

(***************************************************************************)
(* Spec: a driver thread that calls the API in any order.                  *)
(***************************************************************************)
ApiCalls == {"start_entry", "stop_entry", "poll_entry"}

DriverCall ==
    /\ pc = "idle"
    /\ \E f \in ApiCalls : Call(f, "idle")
    /\ UNCHANGED <<ps, ur, bpc, apc, rpc, gst_state, loc, leaked, rc, last_call,
                   wait_timed_out, had_error>>

\* main.c toggles recording only on a RUNNING pipeline (lines 260, 275)
DriverRecording ==
    /\ pc = "idle"
    /\ ps.state = "RUNNING"
    /\ \/ \E new_ok \in BOOLEAN : ps' = pipeline_enable_recording(ps, new_ok)
       \/ ps' = pipeline_disable_recording(ps)
    /\ UNCHANGED <<ur, bpc, apc, rpc, gst_state, loc, leaked, pc, stack, rc,
                   last_call, wait_timed_out, had_error>>

\* pipeline_start called from a second thread while the driver is inside
\* pipeline_stop: lines 225-252 of that call
ConcurrentStart ==
    /\ n_conc < MaxConcurrentStarts
    /\ ps.state = "STOPPING"
    /\ n_conc' = n_conc + 1
    /\ IF pipeline_start_refuses(ps.state)
       THEN /\ rc2' = -1
            /\ refused_in' = refused_in \cup {ps.state}
            /\ UNCHANGED ps
       ELSE /\ rc2' = 0
            /\ ps' = pipeline_start_reset(ps)
            /\ UNCHANGED refused_in
    /\ UNCHANGED <<ur, bpc, apc, rpc, gst_state, loc, leaked, pc, stack, rc,
                   last_call, wait_timed_out, had_error>>

MainIdle ==
    /\ g_exit_flag = FALSE /\ g_restart_flag = FALSE
    /\ g_start_record_flag = 0 /\ g_stop_record_flag = 0
    /\ cfg_record_enable = FALSE /\ exit_status = "running"
    /\ sig_thread_alive = FALSE
GuardIdle == pidfile = [exists |-> FALSE] /\ proc = <<>>
IngressIdle == ing = [pc |-> "none"]
PathIdle ==
    /\ sink = [pc |-> "none"] /\ rx = [pc |-> "none"]
    /\ wk = [pc |-> "none"] /\ sg = [pc |-> "none"]
UnitIdle ==
    /\ flt = [pc |-> "none"] /\ rec = [pc |-> "none"] /\ cli = [pc |-> "none"]
    /\ PathIdle

Init ==
    /\ LifeInit
    /\ pc = "idle" /\ stack = <<>>
    /\ n_conc = 0 /\ rc2 = 0 /\ refused_in = {}
    /\ MainIdle /\ GuardIdle /\ IngressIdle /\ UnitIdle

\* A step of the lifecycle leaves the rest of the model alone.
Life(A) ==
    A /\ UNCHANGED <<concVars, mainVars, guardVars, ingVars, unitVars>>
LifeGuard(A) ==
    A /\ UNCHANGED <<n_conc, rc2, mainVars, guardVars, ingVars, unitVars>>
LifeConc(A) == A /\ UNCHANGED <<mainVars, guardVars, ingVars, unitVars>>

Next ==
    \/ Life(DriverCall)
    \/ Life(DriverRecording)
    \/ LifeConc(ConcurrentStart)
    \/ LifeGuard(pipeline_start_guard)
    \/ Life(pipeline_start_build)
    \/ Life(udp_receiver_start)
    \/ Life(pipeline_start_playing)
    \/ Life(pipeline_start_decoder)
    \/ Life(pipeline_start_appsink_thread)
    \/ Life(pipeline_start_bus_thread)
    \/ Life(pipeline_start_running)
    \/ Life(pipeline_start_fail)
    \/ Life(pipeline_start_fail_ret)
    \/ Life(cleanup_join_appsink)
    \/ Life(cleanup_join_bus)
    \/ Life(cleanup_receiver_stop)
    \/ Life(cleanup_receiver_join)
    \/ Life(cleanup_receiver_free)
    \/ Life(cleanup_pipeline_graph)
    \/ Life(cleanup_pipeline_decoder)
    \/ Life(cleanup_pipeline_recorder)
    \/ Life(pipeline_stop_mark)
    \/ Life(pipeline_stop_graph)
    \/ Life(pipeline_stop_ingress)
    \/ Life(pipeline_stop_ingress_join)
    \/ Life(stop_appsink_thread)
    \/ Life(stop_bus_thread_wait)
    \/ Life(stop_bus_thread_join)
    \/ Life(pipeline_stop_cleanup)
    \/ Life(pipeline_stop_stopped)
    \/ Life(pipeline_poll_child_check)
    \/ Life(pipeline_poll_child_join)
    \/ Life(pipeline_poll_child_stopped)
    \/ Life(bus_thread_func_init)
    \/ Life(bus_thread_func_timeout)
    \/ Life(bus_thread_func_message)
    \/ Life(bus_thread_func_exit)
    \/ Life(appsink_thread_func_init)
    \/ Life(appsink_thread_func_loop)
    \/ Life(appsink_thread_func_exit)
    \/ Life(receiver_thread_poll)

Spec == Init /\ [][Next]_vars

(***************************************************************************)
(* main (main.c 225-327): the supervisor loop, and signal_thread_func      *)
(* (main.c 132-176). The process runs until exit_status is an exit code.    *)
(***************************************************************************)
mainFrame == <<ur, bpc, apc, rpc, gst_state, loc, leaked, rc, last_call,
               wait_timed_out, had_error>>
mainFrameNoRc == <<ur, bpc, apc, rpc, gst_state, loc, leaked, last_call,
                   wait_timed_out, had_error>>

\* what pipeline_enable_recording returns (lines 533-545): -1 when the writer
\* cannot be constructed, else 0
pipeline_enable_recording_rc(new_ok) == IF new_ok THEN 0 ELSE -1

\* Mutant: the restart does not attach the recorder again
main_reattaches_never(enable) == FALSE
\* line 287: `else if (cfg.record.enable)`
main_reattaches(enable) == enable

\* lines 179-203: parse_cli, ensure_single_instance, the signal mask and the
\* signal watcher thread
main_prelude ==
    /\ pc = "m_boot"
    /\ \/ \* parse_cli returned 1 (--help): return 0
          exit_status' = "exit_0" /\ pc' = "done" /\ UNCHANGED sig_thread_alive
       \/ \* parse_cli returned -1: return 2
          exit_status' = "exit_2" /\ pc' = "done" /\ UNCHANGED sig_thread_alive
       \/ \* the guard refused, or pthread_sigmask or pthread_create failed
          exit_status' = "exit_1" /\ pc' = "done" /\ UNCHANGED sig_thread_alive
       \/ sig_thread_alive' = TRUE /\ pc' = "m_display"
          /\ UNCHANGED exit_status
    /\ UNCHANGED <<ps, mainFrame, stack, g_exit_flag, g_restart_flag,
                   g_start_record_flag, g_stop_record_flag, cfg_record_enable>>

\* lines 205-223: open the card, atomic_modeset_maxhz
main_display ==
    /\ pc = "m_display"
    /\ \/ /\ g_exit_flag' = TRUE
          /\ sig_thread_alive' = FALSE
          /\ exit_status' = "exit_1"
          /\ pc' = "done"
       \/ /\ pc' = "m_init"
          /\ UNCHANGED <<g_exit_flag, sig_thread_alive, exit_status>>
    /\ UNCHANGED <<ps, mainFrame, stack, g_restart_flag,
                   g_start_record_flag, g_stop_record_flag, cfg_record_enable>>

\* line 228
main_start ==
    /\ pc = "m_init"
    /\ Call("start_entry", "m_started")
    /\ UNCHANGED <<ps, mainFrame, mainVars>>

\* lines 228-241
main_started ==
    /\ pc = "m_started"
    /\ IF rc # 0
       THEN /\ g_exit_flag' = TRUE
            /\ sig_thread_alive' = FALSE
            /\ exit_status' = "exit_1"
            /\ pc' = "done"
            /\ UNCHANGED <<ps, rc>>
       ELSE /\ IF cfg_record_enable
               THEN \E new_ok \in BOOLEAN :
                      /\ ps' = pipeline_enable_recording(ps, new_ok)
                      /\ rc' = pipeline_enable_recording_rc(new_ok)
               ELSE UNCHANGED <<ps, rc>>
            /\ pc' = "m_sleep"
            /\ UNCHANGED <<g_exit_flag, sig_thread_alive, exit_status>>
    /\ UNCHANGED <<mainFrameNoRc, stack, g_restart_flag, g_start_record_flag,
                   g_stop_record_flag, cfg_record_enable>>

\* lines 244-250: poll(200 ms), then the exit flag
main_loop_exit_check ==
    /\ pc = "m_sleep"
    /\ pc' = IF g_exit_flag THEN "m_final" ELSE "m_record_on"
    /\ UNCHANGED <<ps, mainFrame, stack, mainVars>>

\* lines 252-265
main_record_on ==
    /\ pc = "m_record_on"
    /\ IF g_start_record_flag > 0
       THEN /\ g_start_record_flag' = 0
            /\ cfg_record_enable' = TRUE
            /\ IF ps.state = "RUNNING"
               THEN \E new_ok \in BOOLEAN :
                      /\ ps' = pipeline_enable_recording(ps, new_ok)
                      /\ rc' = pipeline_enable_recording_rc(new_ok)
               ELSE UNCHANGED <<ps, rc>>
       ELSE UNCHANGED <<g_start_record_flag, cfg_record_enable, ps, rc>>
    /\ pc' = "m_record_off"
    /\ UNCHANGED <<mainFrameNoRc, stack, g_exit_flag, g_restart_flag,
                   g_stop_record_flag, exit_status, sig_thread_alive>>

\* lines 267-278
main_record_off ==
    /\ pc = "m_record_off"
    /\ IF g_stop_record_flag > 0
       THEN /\ g_stop_record_flag' = 0
            /\ cfg_record_enable' = FALSE
            /\ ps' = IF ps.state = "RUNNING"
                     THEN pipeline_disable_recording(ps) ELSE ps
       ELSE UNCHANGED <<g_stop_record_flag, cfg_record_enable, ps>>
    /\ pc' = "m_restart"
    /\ UNCHANGED <<mainFrame, stack, g_exit_flag, g_restart_flag,
                   g_start_record_flag, exit_status, sig_thread_alive>>

\* lines 280-283: pipeline_stop(&ps, 700), called directly
main_restart_stop ==
    /\ pc = "m_restart"
    /\ IF g_restart_flag
       THEN /\ g_restart_flag' = FALSE
            /\ Call("stop_entry", "m_restart_start")
       ELSE /\ pc' = "m_poll"
            /\ UNCHANGED <<g_restart_flag, stack>>
    /\ UNCHANGED <<ps, mainFrame, g_exit_flag, g_start_record_flag,
                   g_stop_record_flag, cfg_record_enable, exit_status,
                   sig_thread_alive>>

\* line 284
main_restart_start ==
    /\ pc = "m_restart_start"
    /\ Call("start_entry", "m_restarted")
    /\ UNCHANGED <<ps, mainFrame, mainVars>>

\* lines 284-291
main_restarted ==
    /\ pc = "m_restarted"
    /\ IF rc # 0
       THEN /\ g_exit_flag' = TRUE
            /\ UNCHANGED <<ps, rc>>
       ELSE /\ IF main_reattaches(cfg_record_enable)
               THEN \E new_ok \in BOOLEAN :
                      /\ ps' = pipeline_enable_recording(ps, new_ok)
                      /\ rc' = pipeline_enable_recording_rc(new_ok)
               ELSE UNCHANGED <<ps, rc>>
            /\ UNCHANGED g_exit_flag
    /\ pc' = "m_poll"
    /\ UNCHANGED <<mainFrameNoRc, stack, g_restart_flag, g_start_record_flag,
                   g_stop_record_flag, cfg_record_enable, exit_status,
                   sig_thread_alive>>

\* line 294
main_poll ==
    /\ pc = "m_poll"
    /\ Call("poll_entry", "m_polled")
    /\ UNCHANGED <<ps, mainFrame, mainVars>>

\* Mutant: the loop goes on after the pipeline has stopped
main_loop_goes_on(state) == FALSE
\* line 295: `if (ps.state == PIPELINE_STOPPED)`
main_loop_ends(state) == state = "STOPPED"

\* lines 295-299
main_polled ==
    /\ pc = "m_polled"
    /\ IF main_loop_ends(ps.state)
       THEN g_exit_flag' = TRUE /\ pc' = "m_final"
       ELSE UNCHANGED g_exit_flag /\ pc' = "m_sleep"
    /\ UNCHANGED <<ps, mainFrame, stack, g_restart_flag, g_start_record_flag,
                   g_stop_record_flag, cfg_record_enable, exit_status,
                   sig_thread_alive>>

\* lines 302-308: pipeline_stop runs in the stop worker (or, when the worker
\* cannot be created, in main itself)
main_final_stop ==
    /\ pc = "m_final"
    /\ Call("stop_entry", "m_stopped")
    /\ UNCHANGED <<ps, mainFrame, mainVars>>

\* lines 309-316: pthread_timedjoin_np expired after 5 s: _exit(128)
main_stop_deadline ==
    /\ stack # <<>>
    /\ stack[Len(stack)] = "m_stopped"
    /\ exit_status' = "exit_128"
    /\ sig_thread_alive' = FALSE
    /\ pc' = "done"
    /\ stack' = <<>>
    /\ UNCHANGED <<ps, mainFrame, g_exit_flag, g_restart_flag,
                   g_start_record_flag, g_stop_record_flag, cfg_record_enable>>

\* lines 318-326
main_bye ==
    /\ pc = "m_stopped"
    /\ g_exit_flag' = TRUE
    /\ sig_thread_alive' = FALSE
    /\ exit_status' = "exit_0"
    /\ pc' = "done"
    /\ UNCHANGED <<ps, mainFrame, stack, g_restart_flag, g_start_record_flag,
                   g_stop_record_flag, cfg_record_enable>>

\* signal_thread_func: one signal taken from sigwaitinfo
Signals == {"SIGINT", "SIGTERM", "SIGHUP", "SIGUSR1", "SIGUSR2"}
signal_thread_func ==
    /\ sig_thread_alive
    /\ \E sig \in Signals :
         /\ g_exit_flag' = (g_exit_flag \/ sig \in {"SIGINT", "SIGTERM"})
         /\ g_restart_flag' = (g_restart_flag \/ sig = "SIGHUP")
         /\ g_start_record_flag' =
              IF sig = "SIGUSR1" /\ g_start_record_flag < MaxSigCount
              THEN g_start_record_flag + 1 ELSE g_start_record_flag
         /\ g_stop_record_flag' =
              IF sig = "SIGUSR2" /\ g_stop_record_flag < MaxSigCount
              THEN g_stop_record_flag + 1 ELSE g_stop_record_flag
         \* lines 171-173: the thread ends after SIGTERM
         /\ sig_thread_alive' = (sig # "SIGTERM")
    /\ UNCHANGED <<lifeVars, cfg_record_enable, exit_status>>

MainInit ==
    /\ LifeInit
    /\ pc = "m_boot" /\ stack = <<>>
    /\ n_conc = 0 /\ rc2 = 0 /\ refused_in = {}
    /\ g_exit_flag = FALSE /\ g_restart_flag = FALSE
    /\ g_start_record_flag = 0 /\ g_stop_record_flag = 0
    /\ cfg_record_enable \in BOOLEAN
    /\ exit_status = "running"
    /\ sig_thread_alive = FALSE
    /\ GuardIdle /\ IngressIdle /\ UnitIdle

\* A step of main or of the signal thread
Prog(A) == A /\ UNCHANGED <<concVars, guardVars, ingVars, unitVars>>

\* Steps of the process's threads that need nothing but the processor
MainThread ==
    \/ Prog(main_prelude)
    \/ Prog(main_display)
    \/ Prog(main_start)
    \/ Prog(main_started)
    \/ Prog(main_loop_exit_check)
    \/ Prog(main_record_on)
    \/ Prog(main_record_off)
    \/ Prog(main_restart_stop)
    \/ Prog(main_restart_start)
    \/ Prog(main_restarted)
    \/ Prog(main_poll)
    \/ Prog(main_polled)
    \/ Prog(main_final_stop)
    \/ Prog(main_bye)
    \/ LifeGuard(pipeline_start_guard)
    \/ Life(pipeline_start_build)
    \/ Life(udp_receiver_start)
    \/ Life(pipeline_start_playing)
    \/ Life(pipeline_start_decoder)
    \/ Life(pipeline_start_appsink_thread)
    \/ Life(pipeline_start_bus_thread)
    \/ Life(pipeline_start_running)
    \/ Life(pipeline_start_fail)
    \/ Life(pipeline_start_fail_ret)
    \/ Life(cleanup_join_appsink)
    \/ Life(cleanup_join_bus)
    \/ Life(cleanup_receiver_stop)
    \/ Life(cleanup_receiver_join)
    \/ Life(cleanup_receiver_free)
    \/ Life(cleanup_pipeline_graph)
    \/ Life(cleanup_pipeline_decoder)
    \/ Life(cleanup_pipeline_recorder)
    \/ Life(pipeline_stop_mark)
    \/ Life(pipeline_stop_graph)
    \/ Life(pipeline_stop_ingress)
    \/ Life(pipeline_stop_ingress_join)
    \/ Life(stop_appsink_thread)
    \/ Life(stop_bus_thread_wait)
    \/ Life(stop_bus_thread_join)
    \/ Life(pipeline_stop_cleanup)
    \/ Life(pipeline_stop_stopped)
    \/ Life(pipeline_poll_child_check)
    \/ Life(pipeline_poll_child_join)
    \/ Life(pipeline_poll_child_stopped)

BusProgram ==
    \/ Life(bus_thread_func_init)
    \/ Life(bus_thread_func_timeout)
    \/ Life(bus_thread_func_exit)

AppsinkProgram ==
    \/ Life(appsink_thread_func_init)
    \/ Life(appsink_thread_func_loop)
    \/ Life(appsink_thread_func_exit)

MainNext ==
    \/ MainThread
    \/ BusProgram
    \/ AppsinkProgram
    \/ Life(receiver_thread_poll)
    \/ Life(bus_thread_func_message)
    \/ Prog(main_stop_deadline)
    \/ Prog(signal_thread_func)

\* Every thread of the process is scheduled again and again; the 5 s deadline
\* of the final stop expires if the stop has not returned. Signals and bus
\* messages come from outside and may never come.
MainFairness ==
    /\ WF_vars(MainThread)
    /\ WF_vars(BusProgram)
    /\ WF_vars(AppsinkProgram)
    /\ WF_vars(Life(receiver_thread_poll))
    /\ WF_vars(Prog(main_stop_deadline))

MainSpec == MainInit /\ [][MainNext]_vars /\ MainFairness

(***************************************************************************)
(* The single-instance guard (main.c 43-130). A process's PID is its       *)
(* index; StalePid is the PID of a process that no longer exists. The PID   *)
(* file is the directory entry: whether the path exists and who created the *)
(* file it names (0: left behind by a dead process, holding StalePid). A    *)
(* process writes through the descriptor it opened, so what a reader finds  *)
(* depends on whether the creator has written yet.                          *)
(***************************************************************************)
Procs == 1..NumProcs
StalePid == NumProcs + 1

NoFile == [exists |-> FALSE, owner |-> 0]
StaleFile == [exists |-> TRUE, owner |-> 0]

\* kill(pid, 0) == 0: the process exists (it may still be starting)
ProcessExists(q) == q \in Procs /\ proc[q].pc # "exited"

\* read_existing_pid: -1 when the file cannot be opened, is empty or does not
\* hold a positive number
read_existing_pid ==
    IF ~pidfile.exists THEN -1
    ELSE IF pidfile.owner = 0 THEN StalePid
    ELSE IF proc[pidfile.owner].wrote THEN pidfile.owner
    ELSE -1

\* write_pid_file, line 75: open(O_CREAT | O_EXCL)
write_pid_file_open(p) ==
    /\ proc[p].pc = "open"
    /\ IF pidfile.exists
       THEN \* EEXIST: return 1
            /\ proc' = [proc EXCEPT ![p].pc = "read"]
            /\ UNCHANGED pidfile
       ELSE \/ /\ pidfile' = [exists |-> TRUE, owner |-> p]
               /\ proc' = [proc EXCEPT ![p].pc = "write"]
            \/ \* another error of open: return -1, the process exits
               /\ proc' = [proc EXCEPT ![p].pc = "exited"]
               /\ UNCHANGED pidfile

\* write_pid_file, lines 93-103: write the PID; on a short write unlink the
\* path and fail
write_pid_file_write(p) ==
    /\ proc[p].pc = "write"
    /\ \/ /\ proc' = [proc EXCEPT ![p].pc = "passed", ![p].wrote = TRUE]
          /\ UNCHANGED pidfile
       \/ /\ proc' = [proc EXCEPT ![p].pc = "exited"]
          /\ pidfile' = NoFile

\* ensure_single_instance, line 116
ensure_single_instance_read(p) ==
    /\ proc[p].pc = "read"
    /\ proc' = [proc EXCEPT ![p].pc = "probe",
                            ![p].existing_pid = read_existing_pid]
    /\ UNCHANGED pidfile

\* ensure_single_instance, lines 117-123
ensure_single_instance_probe(p) ==
    /\ proc[p].pc = "probe"
    /\ proc' = [proc EXCEPT ![p].pc =
                   IF proc[p].existing_pid > 0
                      /\ ProcessExists(proc[p].existing_pid)
                   THEN "exited" ELSE "unlink"]
    /\ UNCHANGED pidfile

\* ensure_single_instance, lines 125-128: unlink the path, then retry
ensure_single_instance_unlink(p) ==
    /\ proc[p].pc = "unlink"
    /\ pidfile' = NoFile
    /\ proc' = [proc EXCEPT ![p].pc = "open"]

\* remove_instance_pid, run at exit by an instance that passed the guard
remove_instance_pid(p) ==
    /\ proc[p].pc = "passed"
    /\ pidfile' = NoFile
    /\ proc' = [proc EXCEPT ![p].pc = "exited"]

GuardInit ==
    /\ LifeInit
    /\ pc = "idle" /\ stack = <<>>
    /\ n_conc = 0 /\ rc2 = 0 /\ refused_in = {}
    /\ MainIdle /\ IngressIdle /\ UnitIdle
    /\ pidfile \in {NoFile, StaleFile}
    /\ proc = [p \in Procs |-> [pc |-> "open", existing_pid |-> 0,
                                wrote |-> FALSE]]

Guard(A) ==
    A /\ UNCHANGED <<lifeVars, concVars, mainVars, ingVars, unitVars>>

GuardNext ==
    \E p \in Procs :
        \/ Guard(write_pid_file_open(p))
        \/ Guard(write_pid_file_write(p))
        \/ Guard(ensure_single_instance_read(p))
        \/ Guard(ensure_single_instance_probe(p))
        \/ Guard(ensure_single_instance_unlink(p))
        \/ Guard(remove_instance_pid(p))

GuardSpec == GuardInit /\ [][GuardNext]_vars

(***************************************************************************)
(* The ingress data path (udp_receiver.c 38-174). The streaming source      *)
(* (appsrc, max-bytes 0, block FALSE) queues what is pushed; its streaming   *)
(* thread hands the buffers on to the transform chain, which holds them      *)
(* until it has consumed them. A pool buffer is back in the pool only when   *)
(* the last holder has released it.                                          *)
(***************************************************************************)
UDP_MAX_PACKET == 4 * 1024
POOL_MAX_BUFFERS == 32
DEFAULT_VID_PT == 97

\* The 8 MiB watermark, and the level up to which the model feeds datagrams
Watermark == 8 * 1024 * 1024
MaxLevel == Watermark + MaxOverWatermark * UDP_MAX_PACKET

\* What happens to the pool in a run: it works, it cannot be created or
\* activated (ensure_buffer_pool returns FALSE), or acquisitions fail
PoolEnvs == {"ok", "no_pool", "acquire_fails"}

\* Datagram lengths and second bytes the model receives
DgramLens == {0, 1, UDP_MAX_PACKET}
SecondBytes == {DEFAULT_VID_PT, DEFAULT_VID_PT + 128, DEFAULT_VID_PT - 1}

\* payload_type_matches(data, len, expected_pt), data[1] given as b1
payload_type_matches(b1, len, expected_pt) ==
    IF expected_pt < 0 THEN TRUE
    ELSE IF len < 2 THEN FALSE
    ELSE (b1 % 128) = (expected_pt % 256)

\* pool buffers that are not in the pool
InFlight ==
    IF ing.pool_env = "ok"
    THEN ing.queued + ing.held + (IF ing.buf = "pool" THEN 1 ELSE 0)
    ELSE 0

\* lines 98-123: stop check, recv, payload filter
receiver_thread_recv ==
    /\ ing.pc = "loop"
    /\ IF ing.stop_requested
       THEN ing' = [ing EXCEPT !.pc = "exited"]
       ELSE \/ \* EAGAIN, or another recv error: continue
               UNCHANGED ing
            \/ /\ ing.level < MaxLevel
               /\ \E len \in DgramLens, b1 \in SecondBytes :
                    ing' = IF len = 0
                              \/ ~payload_type_matches(b1, len, ing.vid_pt)
                           THEN ing
                           ELSE [ing EXCEPT !.pc = "acquire", !.n = len]

\* lines 126-140: ensure_buffer_pool, acquire (no acquire params: the call
\* waits while every buffer of the pool is out), fallback allocation
receiver_thread_acquire ==
    /\ ing.pc = "acquire"
    /\ \/ /\ ing.pool_env = "ok"
          /\ ing' = IF InFlight < POOL_MAX_BUFFERS
                    THEN [ing EXCEPT !.pool = TRUE, !.buf = "pool",
                                     !.pushes = 0, !.releases = 0,
                                     !.pc = "copy"]
                    ELSE [ing EXCEPT !.pool = TRUE, !.pc = "acquire_wait"]
       \/ /\ ing.pool_env # "ok"
          /\ \/ ing' = [ing EXCEPT !.pool = (ing.pool_env = "acquire_fails"),
                                   !.buf = "fresh", !.pushes = 0,
                                   !.releases = 0, !.pc = "copy"]
             \/ \* gst_buffer_new_allocate failed: drop
                ing' = [ing EXCEPT !.pool = (ing.pool_env = "acquire_fails"),
                                   !.pc = "loop", !.n = 0]

\* gst_buffer_pool_acquire_buffer returns once a buffer is back in the pool
receiver_thread_acquire_wait ==
    /\ ing.pc = "acquire_wait"
    /\ InFlight < POOL_MAX_BUFFERS
    /\ ing' = [ing EXCEPT !.buf = "pool", !.pushes = 0, !.releases = 0,
                          !.pc = "copy"]

\* what gst_buffer_map and the size test of lines 143-160 find
MapOutcomes == {"ok", "too_small", "map_failed"}

\* Mutant: the too-small path continues without gst_buffer_unref
receiver_thread_unrefs_on_map_failure_only(outcome) == outcome = "map_failed"

\* lines 146-151 and 156-160: the buffer is released when it cannot be mapped
\* or is too small
receiver_thread_unrefs(outcome) == outcome # "ok"

\* lines 143-160: map, size test, copy, unmap, set size
receiver_thread_copy ==
    /\ ing.pc = "copy"
    /\ \E outcome \in MapOutcomes :
         IF outcome = "ok"
         THEN ing' = [ing EXCEPT !.pc = "push"]
         ELSE ing' = [ing EXCEPT
                  !.releases = IF receiver_thread_unrefs(outcome)
                               THEN @ + 1 ELSE @,
                  !.buf = "none", !.n = 0, !.pc = "loop"]

\* lines 162-169: gst_app_src_push_buffer_full; the source owns the buffer
\* whatever the push returns, and only the flow return is looked at
receiver_thread_push ==
    /\ ing.pc = "push"
    /\ \/ \* pushed and queued by the source
          ing' = [ing EXCEPT !.queued = @ + 1, !.level = @ + ing.n,
                             !.pushes = @ + 1,
                             !.buf = "none", !.n = 0, !.pc = "loop"]
       \/ \* the source refused the buffer (flushing) and dropped it
          ing' = [ing EXCEPT !.pushes = @ + 1,
                             !.buf = "none", !.n = 0, !.pc = "loop"]

\* the source's streaming thread hands its oldest buffer to the chain
appsrc_streaming_push ==
    /\ ing.queued > 0
    /\ ing' = [ing EXCEPT !.queued = @ - 1, !.level = @ - UDP_MAX_PACKET,
                          !.held = IF ing.pool_env = "ok" THEN @ + 1 ELSE @]

\* the transform chain has consumed a buffer and releases it
downstream_release ==
    /\ ing.held > 0
    /\ ing' = [ing EXCEPT !.held = @ - 1]

\* udp_receiver_stop, line 279
ingress_stop_request ==
    /\ ing.pc # "exited"
    /\ ~ing.stop_requested
    /\ ing' = [ing EXCEPT !.stop_requested = TRUE]

IngressInit ==
    /\ LifeInit
    /\ pc = "idle" /\ stack = <<>>
    /\ n_conc = 0 /\ rc2 = 0 /\ refused_in = {}
    /\ MainIdle /\ GuardIdle /\ UnitIdle
    /\ \E env \in PoolEnvs :
         ing = [pc |-> "loop", pool_env |-> env, vid_pt |-> DEFAULT_VID_PT,
                pool |-> FALSE, buf |-> "none", n |-> 0, queued |-> 0,
                held |-> 0, level |-> 0, stop_requested |-> FALSE,
                pushes |-> 0, releases |-> 0]

Ingress(A) ==
    A /\ UNCHANGED <<lifeVars, concVars, mainVars, guardVars, unitVars>>

IngressNext ==
    \/ Ingress(receiver_thread_recv)
    \/ Ingress(receiver_thread_acquire)
    \/ Ingress(receiver_thread_acquire_wait)
    \/ Ingress(receiver_thread_copy)
    \/ Ingress(receiver_thread_push)
    \/ Ingress(appsrc_streaming_push)
    \/ Ingress(downstream_release)
    \/ Ingress(ingress_stop_request)

IngressSpec == IngressInit /\ [][IngressNext]_vars

(***************************************************************************)
(* The payload filter of receiver_thread (udp_receiver.c 107-123) applied   *)
(* to single datagrams: length, second byte, and the configured payload     *)
(* type (--vid-pt accepts any integer, config.c 65-78).                      *)
(***************************************************************************)
MaxFilterLen == 3
ExpectedPts ==
    {-1, 0, DEFAULT_VID_PT - 1, DEFAULT_VID_PT, 127, 128, DEFAULT_VID_PT + 128,
     255, 256, DEFAULT_VID_PT + 256}
Octets == 0..255

\* lines 107-123: a datagram goes on to the buffer acquisition and the push
\* unless it is empty or the filter rejects it
receiver_thread_filter ==
    /\ flt.pc = "recv"
    /\ flt' = [flt EXCEPT
                 !.pc = "done",
                 !.pushed = /\ flt.len # 0
                            /\ payload_type_matches(flt.b1, flt.len,
                                                    flt.expected_pt)]

\* the next datagram
receiver_thread_next_datagram ==
    /\ flt.pc = "done"
    /\ \E len \in 0..MaxFilterLen, b1 \in Octets :
         flt' = [flt EXCEPT !.pc = "recv", !.len = len, !.b1 = b1,
                            !.pushed = FALSE]

FilterInit ==
    /\ LifeInit
    /\ pc = "idle" /\ stack = <<>>
    /\ n_conc = 0 /\ rc2 = 0 /\ refused_in = {}
    /\ MainIdle /\ GuardIdle /\ IngressIdle
    /\ rec = [pc |-> "none"] /\ cli = [pc |-> "none"] /\ PathIdle
    /\ \E pt \in ExpectedPts, len \in 0..MaxFilterLen, b1 \in Octets :
         flt = [pc |-> "recv", expected_pt |-> pt, len |-> len, b1 |-> b1,
                pushed |-> FALSE]

Filter(A) ==
    A /\ UNCHANGED <<lifeVars, concVars, mainVars, guardVars, ingVars, rec,
                     cli, pathVars>>

FilterNext ==
    \/ Filter(receiver_thread_filter)
    \/ Filter(receiver_thread_next_datagram)

FilterSpec == FilterInit /\ [][FilterNext]_vars

(***************************************************************************)
(* The recorder slot (part_001 128-134, 486-492, 521-583). Writers are      *)
(* numbered in the order video_recorder_new creates them; 0 is NULL. The AU  *)
(* Consumer delivers samples while the controlling thread (main) enables and *)
(* disables recording, reads the statistics and tears the pipeline down.     *)
(***************************************************************************)
MaxWriters == 3

\* Mutant: the lock is taken without waiting for its holder
recorder_lock_ignored(l) == TRUE
\* g_mutex_lock(&ps->recorder_lock) returns when nobody holds the lock
recorder_lock_free(l) == l = "free"

\* Mutant: the new writer always replaces the slot
enable_recording_overwrites(r) == FALSE
\* pipeline_enable_recording, line 538: a writer is already installed
enable_recording_keeps(r) == r # 0

\* Mutant: the slot keeps the writer
disable_recording_slot_kept(r) == r
\* pipeline_disable_recording, lines 554-555: the slot after the detach
disable_recording_slot(r) == 0

Freed == {rec.freed[i] : i \in 1..Len(rec.freed)}

\* where the controlling thread is when a call on the recorder slot returns:
\* between calls on a RUNNING pipeline, or on a STOPPED one
rec_returns(r) == IF r.state = "STOPPED" THEN "stopped" ELSE "idle"

\* the controlling thread enters one of the operations
rec_call ==
    /\ rec.ctl = "idle"
    /\ \E op \in {"enable", "disable", "stats", "teardown"} :
         rec' = [rec EXCEPT !.ctl = op, !.op = op, !.prev_op = rec.op,
                            !.pre = rec.recorder, !.made = 0]

\* main.c 252-265: SIGUSR1 was received. cfg.record.enable is set and, the
\* pipeline being RUNNING, pipeline_enable_recording is called whether or not
\* recording was enabled before
main_sigusr1 ==
    /\ rec.ctl = "idle"
    /\ rec' = [rec EXCEPT !.ctl = "enable", !.op = "sigusr1",
                          !.prev_op = rec.op, !.pre = rec.recorder,
                          !.made = 0, !.was_enabled = rec.enable,
                          !.enable = TRUE]

\* main.c 267-278: SIGUSR2 was received. cfg.record.enable is cleared and,
\* the pipeline being RUNNING, pipeline_disable_recording is called
main_sigusr2 ==
    /\ rec.ctl = "idle"
    /\ rec' = [rec EXCEPT !.ctl = "disable", !.op = "sigusr2",
                          !.prev_op = rec.op, !.pre = rec.recorder,
                          !.made = 0, !.was_enabled = rec.enable,
                          !.enable = FALSE]

\* lines 522-535: argument checks and video_recorder_new
enable_recording_new ==
    /\ rec.ctl = "enable"
    /\ \/ \* empty output path, or the constructor failed: return -1
          rec' = [rec EXCEPT !.ctl = rec_returns(rec), !.ret = -1]
       \/ /\ rec.next_id <= MaxWriters
          /\ rec' = [rec EXCEPT !.ctl = "enable_lock", !.local = rec.next_id,
                                !.made = rec.next_id, !.next_id = @ + 1]

\* lines 537-545: under the lock, install the writer unless one is installed
enable_recording_install ==
    /\ rec.ctl = "enable_lock"
    /\ recorder_lock_free(rec.lock)
    /\ IF enable_recording_keeps(rec.recorder)
       THEN rec' = [rec EXCEPT !.ctl = "enable_discard"]
       ELSE rec' = [rec EXCEPT !.recorder = rec.local, !.local = 0,
                               !.ctl = rec_returns(rec), !.ret = 0]

\* lines 540-541: video_recorder_free(rec); return 0
enable_recording_discard ==
    /\ rec.ctl = "enable_discard"
    /\ rec' = [rec EXCEPT !.freed = Append(@, rec.local), !.local = 0,
                          !.ctl = rec_returns(rec), !.ret = 0]

\* pipeline_disable_recording, lines 553-556: detach under the lock
disable_recording_detach ==
    /\ rec.ctl = "disable"
    /\ recorder_lock_free(rec.lock)
    /\ rec' = [rec EXCEPT !.local = rec.recorder,
                          !.recorder = disable_recording_slot(rec.recorder),
                          !.ctl = "disable_free"]

\* lines 558-560: destroy the detached writer outside the lock
disable_recording_free ==
    /\ rec.ctl = "disable_free"
    /\ rec' = [rec EXCEPT
                 !.freed = IF rec.local # 0 THEN Append(@, rec.local) ELSE @,
                 !.local = 0, !.ctl = "idle"]

\* pipeline_get_recording_stats, lines 571-574: lock, read the slot, call
get_recording_stats_lock ==
    /\ rec.ctl = "stats"
    /\ recorder_lock_free(rec.lock)
    /\ IF rec.recorder # 0
       THEN rec' = [rec EXCEPT !.lock = "ctl", !.stats_on = rec.recorder,
                               !.ctl = "stats_call"]
       ELSE rec' = [rec EXCEPT !.ctl = "idle", !.ret = 0]

\* lines 575-582: video_recorder_get_stats returned; unlock; return 0
get_recording_stats_unlock ==
    /\ rec.ctl = "stats_call"
    /\ rec' = [rec EXCEPT !.lock = "free", !.stats_on = 0, !.ctl = "idle",
                          !.ret = 0]

\* pipeline_stop: stop_requested is set and the AU Consumer is joined before
\* cleanup_pipeline reaches the recorder (lines 420-428, 451-453)
teardown_join ==
    /\ rec.ctl = "teardown"
    /\ IF ~rec.stop_requested
       THEN rec' = [rec EXCEPT !.stop_requested = TRUE]
       ELSE /\ rec.au = "exited"
            /\ rec' = [rec EXCEPT !.ctl = "teardown_detach"]

\* cleanup_pipeline, lines 486-489
teardown_detach ==
    /\ rec.ctl = "teardown_detach"
    /\ recorder_lock_free(rec.lock)
    /\ rec' = [rec EXCEPT !.local = rec.recorder, !.recorder = 0,
                          !.ctl = "teardown_free"]

\* cleanup_pipeline, lines 490-492
teardown_free ==
    /\ rec.ctl = "teardown_free"
    /\ rec' = [rec EXCEPT
                 !.freed = IF rec.local # 0 THEN Append(@, rec.local) ELSE @,
                 !.local = 0, !.ctl = "stopped", !.state = "STOPPED"]

\* pipeline_start: the AU Consumer is created again (lines 243-252, 371)
rec_pipeline_start ==
    /\ rec.ctl = "stopped"
    /\ rec' = [rec EXCEPT !.ctl = "idle", !.au = "idle",
                          !.stop_requested = FALSE, !.state = "RUNNING"]

\* pipeline_enable_recording called on a STOPPED pipeline: lines 521-546 do
\* not read ps->state
rec_enable_stopped ==
    /\ rec.ctl = "stopped"
    /\ rec' = [rec EXCEPT !.ctl = "enable", !.op = "enable",
                          !.prev_op = rec.op, !.pre = rec.recorder,
                          !.made = 0]

\* appsink_thread_func, lines 105-112 and 129-130: leave on stop_requested,
\* else take the lock for a sample and read the slot
appsink_deliver_lock ==
    /\ rec.au = "idle"
    /\ IF rec.stop_requested
       THEN rec' = [rec EXCEPT !.au = "exited"]
       ELSE /\ recorder_lock_free(rec.lock)
            /\ rec' = [rec EXCEPT !.lock = "au", !.au_rec = rec.recorder,
                                  !.au = "locked"]

\* lines 131-133: video_recorder_handle_sample is entered if the slot is set
appsink_deliver_call ==
    /\ rec.au = "locked"
    /\ rec' = IF rec.au_rec # 0
              THEN [rec EXCEPT !.call_on = rec.au_rec, !.au = "in_call"]
              ELSE [rec EXCEPT !.au = "unlock"]

\* handle_sample returned
appsink_deliver_return ==
    /\ rec.au = "in_call"
    /\ rec' = [rec EXCEPT !.call_on = 0, !.au = "unlock"]

\* line 134
appsink_deliver_unlock ==
    /\ rec.au = "unlock"
    /\ rec' = [rec EXCEPT !.lock = "free", !.au_rec = 0, !.au = "idle"]

RecInit ==
    /\ LifeInit
    /\ pc = "idle" /\ stack = <<>>
    /\ n_conc = 0 /\ rc2 = 0 /\ refused_in = {}
    /\ MainIdle /\ GuardIdle /\ IngressIdle
    /\ flt = [pc |-> "none"] /\ cli = [pc |-> "none"] /\ PathIdle
    /\ rec = [recorder |-> 0, next_id |-> 1, freed |-> <<>>, lock |-> "free",
              ctl |-> "idle", op |-> "none", prev_op |-> "none", pre |-> 0,
              made |-> 0, local |-> 0, ret |-> 0, stats_on |-> 0,
              stop_requested |-> FALSE, au |-> "idle", au_rec |-> 0,
              call_on |-> 0, enable |-> FALSE, was_enabled |-> FALSE,
              state |-> "RUNNING"]

Rec(A) ==
    A /\ UNCHANGED <<lifeVars, concVars, mainVars, guardVars, ingVars, flt,
                     cli, pathVars>>

RecNext ==
    \/ Rec(rec_call)
    \/ Rec(main_sigusr1)
    \/ Rec(main_sigusr2)
    \/ Rec(enable_recording_new)
    \/ Rec(enable_recording_install)
    \/ Rec(enable_recording_discard)
    \/ Rec(disable_recording_detach)
    \/ Rec(disable_recording_free)
    \/ Rec(get_recording_stats_lock)
    \/ Rec(get_recording_stats_unlock)
    \/ Rec(teardown_join)
    \/ Rec(teardown_detach)
    \/ Rec(teardown_free)
    \/ Rec(rec_pipeline_start)
    \/ Rec(rec_enable_stopped)
    \/ Rec(appsink_deliver_lock)
    \/ Rec(appsink_deliver_call)
    \/ Rec(appsink_deliver_return)
    \/ Rec(appsink_deliver_unlock)

RecSpec == RecInit /\ [][RecNext]_vars

(***************************************************************************)
(* The configuration (config.c, config_ini.c). Names that the code compares *)
(* with strcasecmp are sequences of characters.                              *)
(***************************************************************************)
RECORD_MODE_STANDARD == 0
RECORD_MODE_SEQUENTIAL == 1
RECORD_MODE_FRAGMENTED == 2
RecordModes ==
    {RECORD_MODE_STANDARD, RECORD_MODE_SEQUENTIAL, RECORD_MODE_FRAGMENTED}

UpperCase == <<"A", "B", "C", "D", "E", "F", "G", "H", "I", "J", "K", "L", "M">>
             \o <<"N", "O", "P", "Q", "R", "S", "T", "U", "V", "W", "X", "Y", "Z">>
LowerCase == <<"a", "b", "c", "d", "e", "f", "g", "h", "i", "j", "k", "l", "m">>
             \o <<"n", "o", "p", "q", "r", "s", "t", "u", "v", "w", "x", "y", "z">>

\* tolower and toupper of one character
tolower(c) ==
    IF \E i \in 1..Len(UpperCase) : UpperCase[i] = c
    THEN LowerCase[CHOOSE i \in 1..Len(UpperCase) : UpperCase[i] = c]
    ELSE c
toupper(c) ==
    IF \E i \in 1..Len(LowerCase) : LowerCase[i] = c
    THEN UpperCase[CHOOSE i \in 1..Len(LowerCase) : LowerCase[i] = c]
    ELSE c

\* Mutant: the comparison is case-sensitive (strcmp)
strcmp_equal(a, b) == a = b
\* strcasecmp(a, b) == 0
strcasecmp_equal(a, b) ==
    /\ Len(a) = Len(b)
    /\ \A i \in 1..Len(a) : tolower(a[i]) = tolower(b[i])

W_standard == <<"s", "t", "a", "n", "d", "a", "r", "d">>
W_default == <<"d", "e", "f", "a", "u", "l", "t">>
W_sequential == <<"s", "e", "q", "u", "e", "n", "t", "i", "a", "l">>
W_append == <<"a", "p", "p", "e", "n", "d">>
W_fragmented == <<"f", "r", "a", "g", "m", "e", "n", "t", "e", "d">>
W_fragment == <<"f", "r", "a", "g", "m", "e", "n", "t">>
W_unknown == <<"u", "n", "k", "n", "o", "w", "n">>

\* config.c 202-209
kRecordModeAliases ==
    << [name |-> W_standard,   mode |-> RECORD_MODE_STANDARD],
       [name |-> W_default,    mode |-> RECORD_MODE_STANDARD],
       [name |-> W_sequential, mode |-> RECORD_MODE_SEQUENTIAL],
       [name |-> W_append,     mode |-> RECORD_MODE_SEQUENTIAL],
       [name |-> W_fragmented, mode |-> RECORD_MODE_FRAGMENTED],
       [name |-> W_fragment,   mode |-> RECORD_MODE_FRAGMENTED] >>

\* cfg_parse_record_mode(value, &mode): the return value and *mode_out after
\* the call, mode being *mode_out before it; the table is searched from i on
RECURSIVE cfg_parse_record_mode_from(_, _, _)
cfg_parse_record_mode_from(i, value, mode) ==
    IF i > Len(kRecordModeAliases) THEN [rc |-> -1, mode |-> mode]
    ELSE IF strcasecmp_equal(value, kRecordModeAliases[i].name)
         THEN [rc |-> 0, mode |-> kRecordModeAliases[i].mode]
         ELSE cfg_parse_record_mode_from(i + 1, value, mode)
cfg_parse_record_mode(value, mode) == cfg_parse_record_mode_from(1, value, mode)

\* cfg_record_mode_name
cfg_record_mode_name(mode) ==
    CASE mode = RECORD_MODE_STANDARD -> W_standard
      [] mode = RECORD_MODE_SEQUENTIAL -> W_sequential
      [] mode = RECORD_MODE_FRAGMENTED -> W_fragmented
      [] OTHER -> W_unknown

\* Spellings of a name: as is, upper case, capitalised, alternating
Spellings(w) ==
    { w,
      [i \in 1..Len(w) |-> toupper(w[i])],
      [i \in 1..Len(w) |-> IF i = 1 THEN toupper(w[i]) ELSE w[i]],
      [i \in 1..Len(w) |-> IF i % 2 = 0 THEN toupper(w[i]) ELSE w[i]] }

AliasNames == {kRecordModeAliases[i].name : i \in 1..Len(kRecordModeAliases)}
\* names that are no alias: empty, a prefix, an extension, other words
OtherNames ==
    { <<>>, W_unknown, SubSeq(W_standard, 1, Len(W_standard) - 1),
      W_standard \o <<"x">>, <<"m", "p", "4">>, <<"s", "e", "q">>,
      <<" ">> \o W_append }

\* cfg_parse_record_mode applied to a name, *mode_out holding out0
cfg_parse_record_mode_call ==
    /\ cli.pc = "mode_parse"
    /\ LET r == cfg_parse_record_mode(cli.name, cli.out0)
       IN cli' = [cli EXCEPT !.pc = "mode_done", !.rc = r.rc, !.out = r.mode]

\* cfg_record_mode_name applied to a mode, its result handed to the parser
cfg_record_mode_name_call ==
    /\ cli.pc = "mode_name"
    /\ cli' = [cli EXCEPT !.pc = "mode_parse",
                          !.name = cfg_record_mode_name(cli.m)]

\* the inputs: a mode to name and parse back, or a name (base: the alias it
\* is a spelling of, <<>> if none)
ModeTasks ==
    {[pc |-> "mode_name", m |-> m, base |-> cfg_record_mode_name(m),
      name |-> <<>>, out0 |-> o, out |-> o, rc |-> 0] :
        m \in RecordModes, o \in RecordModes}
    \cup
    UNION {{[pc |-> "mode_parse", m |-> -1, base |-> a, name |-> n,
             out0 |-> o, out |-> o, rc |-> 0] :
              n \in Spellings(a), o \in RecordModes} : a \in AliasNames}
    \cup
    {[pc |-> "mode_parse", m |-> -1, base |-> <<>>, name |-> n, out0 |-> o,
      out |-> o, rc |-> 0] : n \in OtherNames, o \in RecordModes}

\* cfg_defaults (config.c 46-63)
cfg_defaults ==
    [card_path |-> "/dev/dri/card0", connector_name |-> "",
     config_path |-> "", plane_id |-> 76, udp_port |-> 5600,
     vid_pt |-> DEFAULT_VID_PT, appsink_max_buffers |-> 4, gst_log |-> 0,
     record_enable |-> 0, record_output_path |-> "/media",
     record_mode |-> RECORD_MODE_SEQUENTIAL]

\* strtol on the integer arguments the model uses; any other text is not a
\* number (end == value)
IntTokens == {"11", "22"}
strtol(t) == IF t = "11" THEN 11 ELSE 22

\* the characters of the mode names that appear as arguments or INI values
ModeWord(t) ==
    CASE t = "fragmented" -> W_fragmented
      [] t = "fragment" -> W_fragment
      [] t = "append" -> W_append
      [] t = "STANDARD" -> [i \in 1..Len(W_standard) |-> toupper(W_standard[i])]
      [] OTHER -> <<"?">>

(***************************************************************************)
(* cfg_load_file (config_ini.c). A file is the sequence of its lines after  *)
(* comments and blanks are removed and key and value are trimmed: a section *)
(* header, a key = value pair, or a line without '='. Keys are written in   *)
(* lower case (the code compares them with strcasecmp).                      *)
(***************************************************************************)
Section(n) == [kind |-> "section", name |-> n]
Pair(k, v) == [kind |-> "pair", key |-> k, value |-> v]
NoEquals == [kind |-> "noequals"]

IniFiles ==
    [f \in {"full.ini", "flat.ini", "empty.ini"} |->
       CASE f = "full.ini" ->
              << Section("video"), Pair("card_path", "ini_card"),
                 Pair("connector", "ini_conn"), Pair("plane_id", "22"),
                 Pair("udp_port", "22"), Pair("vid_pt", "22"),
                 Pair("appsink_max_buffers", "22"), Pair("gst_log", "true"),
                 Section("record"), Pair("enable", "true"),
                 Pair("output_path", "ini_out"), Pair("mode", "append") >>
         [] f = "flat.ini" ->
              << Pair("record.enable", "yes"), NoEquals,
                 Pair("record.mode", "fragment"), Pair("plane_id", "x"),
                 Pair("connector_name", "ini_conn"), Pair("gst_log", "no"),
                 Pair("colour", "red") >>
         [] OTHER -> << >> ]

\* parse_int (config_ini.c 25-37) and parse_int_arg (config.c 65-78): the
\* field after the call, and whether the call failed
\* Mutant: an invalid integer is stored as 0, as atoi would
parse_int_atoi(value, old) ==
    IF value \in IntTokens THEN [rc |-> 0, out |-> strtol(value)]
    ELSE [rc |-> -1, out |-> 0]

parse_int(value, old) ==
    IF value \in IntTokens THEN [rc |-> 0, out |-> strtol(value)]
    ELSE [rc |-> -1, out |-> old]

\* parse_bool (config_ini.c 39-53)
parse_bool(value, old) ==
    IF value \in {"true", "yes", "1"} THEN 1
    ELSE IF value \in {"false", "no", "0"} THEN 0
    ELSE old

\* record.mode / mode (config_ini.c 101-109, 129-137)
ini_record_mode(value, cfg) ==
    [cfg EXCEPT !.record_mode =
        cfg_parse_record_mode(ModeWord(value), cfg.record_mode).mode]

\* handle_global_key (config_ini.c 68-112)
handle_global_key(key, value, cfg) ==
    CASE key = "card_path" -> [cfg EXCEPT !.card_path = value]
      [] key \in {"connector", "connector_name"} ->
            [cfg EXCEPT !.connector_name = value]
      [] key = "plane_id" ->
            [cfg EXCEPT !.plane_id = parse_int(value, @).out]
      [] key = "udp_port" ->
            [cfg EXCEPT !.udp_port = parse_int(value, @).out]
      [] key \in {"vid_pt", "video_payload_type"} ->
            [cfg EXCEPT !.vid_pt = parse_int(value, @).out]
      [] key = "appsink_max_buffers" ->
            [cfg EXCEPT !.appsink_max_buffers = parse_int(value, @).out]
      [] key = "gst_log" -> [cfg EXCEPT !.gst_log = parse_bool(value, @)]
      [] key = "record.enable" ->
            [cfg EXCEPT !.record_enable = parse_bool(value, @)]
      [] key \in {"record.output_path", "record.path"} ->
            [cfg EXCEPT !.record_output_path = value]
      [] key = "record.mode" -> ini_record_mode(value, cfg)
      [] OTHER -> cfg

\* handle_section_key (config_ini.c 114-141)
handle_section_key(section, key, value, cfg) ==
    IF section = "video" THEN handle_global_key(key, value, cfg)
    ELSE IF section = "record"
    THEN CASE key = "enable" ->
                [cfg EXCEPT !.record_enable = parse_bool(value, @)]
           [] key \in {"output_path", "path"} ->
                [cfg EXCEPT !.record_output_path = value]
           [] key = "mode" -> ini_record_mode(value, cfg)
           [] OTHER -> cfg
    ELSE handle_global_key(key, value, cfg)

\* the loop of cfg_load_file (config_ini.c 158-224) from line i on
RECURSIVE cfg_load_lines(_, _, _, _)
cfg_load_lines(lines, i, section, cfg) ==
    IF i > Len(lines) THEN cfg
    ELSE LET l == lines[i] IN
         IF l.kind = "section"
         THEN cfg_load_lines(lines, i + 1, l.name, cfg)
         ELSE IF l.kind = "noequals"
         THEN cfg_load_lines(lines, i + 1, section, cfg)
         ELSE cfg_load_lines(lines, i + 1, section,
                 IF section # ""
                 THEN handle_section_key(section, l.key, l.value, cfg)
                 ELSE handle_global_key(l.key, l.value, cfg))

\* cfg_load_file: -1 when the file cannot be opened, else 0
cfg_load_file(path, cfg) ==
    IF path \notin DOMAIN IniFiles THEN [rc |-> -1, cfg |-> cfg]
    ELSE [rc |-> 0, cfg |-> cfg_load_lines(IniFiles[path], 1, "", cfg)]

(***************************************************************************)
(* cfg_load_file, line by line, on files made of good and bad lines.       *)
(***************************************************************************)
\* lines of a generated file
MaxIniLines == 3

IniLineChoices ==
    { Section("record"), Pair("udp_port", "22"), Pair("gst_log", "true"),
      Pair("enable", "yes"), Pair("record.mode", "fragment"),
      Pair("path", "ini_out"),
      NoEquals, Pair("udp_port", "x"), Pair("gst_log", "maybe"),
      Pair("mode", "mp4"), Pair("colour", "red"), Pair("enable", "2") }

GeneratedIniFiles == UNION {[1..n -> IniLineChoices] : n \in 0..MaxIniLines}

\* lines 143-152: fopen; -1 when the file cannot be opened
cfg_load_file_open ==
    /\ cli.pc = "ini_open"
    /\ cli' = IF cli.opens THEN [cli EXCEPT !.pc = "ini_line"]
              ELSE [cli EXCEPT !.pc = "ini_done", !.rc = -1]

\* lines 158-224: one line read by fgets; what the handlers return is not
\* looked at
cfg_load_file_line ==
    /\ cli.pc = "ini_line"
    /\ cli.i <= Len(cli.lines)
    /\ LET l == cli.lines[cli.i] IN
       cli' = [cli EXCEPT
                 !.i = @ + 1,
                 !.section = IF l.kind = "section" THEN l.name ELSE @,
                 !.cfg = cfg_load_lines(<<l>>, 1, cli.section, @)]

\* lines 158, 226-227: fgets returns NULL; fclose; return 0
cfg_load_file_close ==
    /\ cli.pc = "ini_line"
    /\ cli.i > Len(cli.lines)
    /\ cli' = [cli EXCEPT !.pc = "ini_done", !.rc = 0]

IniTasks ==
    {[pc |-> "ini_open", opens |-> TRUE, lines |-> ls, i |-> 1,
      section |-> "", cfg |-> cfg_defaults, rc |-> 0] :
        ls \in GeneratedIniFiles}
    \cup
    {[pc |-> "ini_open", opens |-> FALSE, lines |-> <<>>, i |-> 1,
      section |-> "", cfg |-> cfg_defaults, rc |-> 0]}

(***************************************************************************)
(* parse_cli (config.c 100-195). argv holds argv[1..argc-1].                *)
(***************************************************************************)
\* lines 107-123: --help, and every --config loaded as it is met
RECURSIVE parse_cli_config_pass(_, _, _)
parse_cli_config_pass(argv, i, cfg) ==
    IF i > Len(argv) THEN [rc |-> 0, cfg |-> cfg]
    ELSE IF argv[i] \in {"--help", "-h"} THEN [rc |-> 1, cfg |-> cfg]
    ELSE IF argv[i] = "--config"
    THEN IF i + 1 > Len(argv) THEN [rc |-> -1, cfg |-> cfg]
         ELSE LET c1 == [cfg EXCEPT !.config_path = argv[i + 1]]
                  ld == IF c1.config_path = "" THEN [rc |-> 0, cfg |-> c1]
                        ELSE cfg_load_file(c1.config_path, c1)
              IN IF ld.rc # 0 THEN [rc |-> -1, cfg |-> ld.cfg]
                 ELSE parse_cli_config_pass(argv, i + 2, ld.cfg)
    ELSE parse_cli_config_pass(argv, i + 1, cfg)

\* lines 143-162: an option with an integer argument
IntOptions ==
    {"--plane-id", "--udp-port", "--vid-pt", "--appsink-max-buffers"}
set_int_option(opt, v, cfg) ==
    CASE opt = "--plane-id" -> [cfg EXCEPT !.plane_id = v]
      [] opt = "--udp-port" -> [cfg EXCEPT !.udp_port = v]
      [] opt = "--vid-pt" -> [cfg EXCEPT !.vid_pt = v]
      [] opt = "--appsink-max-buffers" ->
            [cfg EXCEPT !.appsink_max_buffers = v]

\* strncmp(arg, "--", 2) == 0 for the tokens of the model
StartsWithDashes(t) ==
    t \in {"--help", "--config", "--card", "--connector", "--record-video",
           "--record-mode", "--no-record-video", "--gst-log", "--verbose",
           "--bogus"} \cup IntOptions

\* lines 125-191: the options, from argv[i] on
RECURSIVE parse_cli_option_pass(_, _, _)
parse_cli_option_pass(argv, i, cfg) ==
    IF i > Len(argv) THEN [rc |-> 0, cfg |-> cfg]
    ELSE LET arg == argv[i]
             more == i + 1 <= Len(argv)
         IN
         CASE arg = "--config" -> parse_cli_option_pass(argv, i + 2, cfg)
           [] arg = "--card" ->
                IF ~more THEN [rc |-> -1, cfg |-> cfg]
                ELSE parse_cli_option_pass(argv, i + 2,
                         [cfg EXCEPT !.card_path = argv[i + 1]])
           [] arg = "--connector" ->
                IF ~more THEN [rc |-> -1, cfg |-> cfg]
                ELSE parse_cli_option_pass(argv, i + 2,
                         [cfg EXCEPT !.connector_name = argv[i + 1]])
           [] arg \in IntOptions ->
                IF ~more \/ parse_int(argv[i + 1], 0).rc # 0
                THEN [rc |-> -1, cfg |-> cfg]
                ELSE parse_cli_option_pass(argv, i + 2,
                         set_int_option(arg, parse_int(argv[i + 1], 0).out,
                                        cfg))
           [] arg = "--record-video" ->
                IF more /\ ~StartsWithDashes(argv[i + 1])
                THEN parse_cli_option_pass(argv, i + 2,
                         [cfg EXCEPT !.record_enable = 1,
                                     !.record_output_path = argv[i + 1]])
                ELSE parse_cli_option_pass(argv, i + 1,
                         [cfg EXCEPT !.record_enable = 1])
           [] arg = "--record-mode" ->
                IF ~more THEN [rc |-> -1, cfg |-> cfg]
                ELSE LET r == cfg_parse_record_mode(ModeWord(argv[i + 1]),
                                                    cfg.record_mode)
                     IN IF r.rc # 0 THEN [rc |-> -1, cfg |-> cfg]
                        ELSE parse_cli_option_pass(argv, i + 2,
                                 [cfg EXCEPT !.record_mode = r.mode])
           [] arg = "--no-record-video" ->
                parse_cli_option_pass(argv, i + 1,
                    [cfg EXCEPT !.record_enable = 0])
           [] arg = "--gst-log" ->
                parse_cli_option_pass(argv, i + 1, [cfg EXCEPT !.gst_log = 1])
           [] arg = "--verbose" -> parse_cli_option_pass(argv, i + 1, cfg)
           [] OTHER -> [rc |-> -1, cfg |-> cfg]

\* Mutant: the INI files are loaded after the options were applied
parse_cli_ini_last(argv) ==
    LET r2 == parse_cli_option_pass(argv, 1, cfg_defaults)
    IN IF r2.rc # 0 THEN r2 ELSE parse_cli_config_pass(argv, 1, r2.cfg)

\* parse_cli: the return value and *cfg
parse_cli(argv) ==
    LET r1 == parse_cli_config_pass(argv, 1, cfg_defaults)
    IN IF r1.rc # 0 THEN r1 ELSE parse_cli_option_pass(argv, 1, r1.cfg)

\* The command lines of the model: up to MaxOptions options, each with its
\* argument. key and val say what the option asks for.
MaxOptions == 3
Opt(tokens, key, val) == [tokens |-> tokens, key |-> key, val |-> val]
Options ==
    { Opt(<<"--config", "full.ini">>, "config", "full.ini"),
      Opt(<<"--config", "flat.ini">>, "config", "flat.ini"),
      Opt(<<"--config", "gone.ini">>, "config", "gone.ini"),
      Opt(<<"--card", "cli_card">>, "card_path", "cli_card"),
      Opt(<<"--connector", "cli_conn">>, "connector_name", "cli_conn"),
      Opt(<<"--plane-id", "11">>, "plane_id", 11),
      Opt(<<"--udp-port", "11">>, "udp_port", 11),
      Opt(<<"--vid-pt", "11">>, "vid_pt", 11),
      Opt(<<"--appsink-max-buffers", "11">>, "appsink_max_buffers", 11),
      Opt(<<"--record-video">>, "record_enable", 1),
      Opt(<<"--record-video", "cli_out">>, "record_output_path", "cli_out"),
      Opt(<<"--record-mode", "STANDARD">>, "record_mode",
          RECORD_MODE_STANDARD),
      Opt(<<"--record-mode", "fragmented">>, "record_mode",
          RECORD_MODE_FRAGMENTED),
      Opt(<<"--no-record-video">>, "record_enable", 0),
      Opt(<<"--gst-log">>, "gst_log", 1),
      Opt(<<"--verbose">>, "none", 0),
      Opt(<<"--help">>, "none", 0),
      Opt(<<"--plane-id", "x">>, "none", 0),
      Opt(<<"--bogus">>, "none", 0) }

OptionLists == UNION {[1..n -> Options] : n \in 0..MaxOptions}

RECURSIVE Flatten(_, _)
Flatten(opts, i) ==
    IF i > Len(opts) THEN <<>> ELSE opts[i].tokens \o Flatten(opts, i + 1)

\* main.c 180: parse_cli(argc, argv, &cfg)
parse_cli_call ==
    /\ cli.pc = "cli"
    /\ LET r == parse_cli(cli.argv)
       IN cli' = [cli EXCEPT !.pc = "cli_done", !.rc = r.rc, !.cfg = r.cfg]

CliTasks ==
    {[pc |-> "cli", opts |-> o, argv |-> Flatten(o, 1), rc |-> 0,
      cfg |-> cfg_defaults] : o \in OptionLists}

ConfigInit ==
    /\ LifeInit
    /\ pc = "idle" /\ stack = <<>>
    /\ n_conc = 0 /\ rc2 = 0 /\ refused_in = {}
    /\ MainIdle /\ GuardIdle /\ IngressIdle
    /\ flt = [pc |-> "none"] /\ rec = [pc |-> "none"] /\ PathIdle
    /\ cli \in ModeTasks \cup CliTasks \cup IniTasks

Config(A) ==
    A /\ UNCHANGED <<lifeVars, concVars, mainVars, guardVars, ingVars, flt,
                     rec, pathVars>>

ConfigNext ==
    \/ Config(cfg_record_mode_name_call)
    \/ Config(cfg_parse_record_mode_call)
    \/ Config(parse_cli_call)
    \/ Config(cfg_load_file_open)
    \/ Config(cfg_load_file_line)
    \/ Config(cfg_load_file_close)

ConfigSpec == ConfigInit /\ [][ConfigNext]_vars

(***************************************************************************)
(* The AU path: the sink pipeline_start configures (pipeline.c 277-284),   *)
(* the graph that queues access units into it, and appsink_thread_func     *)
(* (pipeline.c 85-155) pulling them and delivering to the recorder and the *)
(* decoder. An AU is its sequence number and its size in bytes.            *)
(***************************************************************************)
\* AUs the graph produces in one run, and the largest configured capacity
MaxAUs == 3
MaxSinkCfg == 2

\* cfg->appsink_max_buffers: parse_int_arg and parse_int accept any integer
AppsinkMaxBuffers == -1..MaxSinkCfg

\* line 278: the capacity pipeline_start gives the sink
appsink_capacity(appsink_max_buffers) ==
    IF appsink_max_buffers > 0 THEN appsink_max_buffers ELSE 12

\* lines 99-102: what video_decoder_max_packet_size reports, and the size
\* limit the AU Consumer works with
DecoderMaxPacket == {0, 2}
appsink_max_packet(reported) ==
    IF reported = 0 THEN 1024 * 1024 ELSE reported

\* line 127: `if (map.size > 0 && map.size <= max_packet)`
appsink_admits(size, max_packet) == size > 0 /\ size <= max_packet

\* Mutant: the decoder is fed before the recorder is looked at
appsink_feeds_first(admitted) == IF admitted THEN "feed" ELSE "unref"
\* lines 127-128: an admitted AU goes to the recorder slot first
appsink_after_map(admitted) == IF admitted THEN "lock" ELSE "unref"

\* Mutant: a busy decoder is fed the same AU again
appsink_retries_busy(feed_rc) == IF feed_rc # 0 THEN "feed" ELSE "unref"
\* lines 135-137: the return value of video_decoder_feed is only logged
appsink_after_feed(feed_rc) == "unref"

\* the sizes the model gives an AU, around the limit in force
AuSizes(max_packet) == {0, 1, max_packet, max_packet + 1}

NoAu == [id |-> 0, size |-> 0]

\* lines 278-280: gst_app_sink_set_max_buffers, gst_app_sink_set_drop(TRUE)
sink_pipeline_start ==
    /\ sink.pc = "start"
    /\ sink' = [sink EXCEPT !.pc = "playing",
                  !.max_buffers = appsink_capacity(sink.appsink_max_buffers),
                  !.au = "init"]

\* the graph queues one AU into the sink; with drop set, a full sink drops
\* its oldest AU to take the new one
appsink_enqueue ==
    /\ sink.pc = "playing"
    /\ sink.next <= MaxAUs
    /\ \E size \in AuSizes(appsink_max_packet(sink.reported)) :
         LET a == [id |-> sink.next, size |-> size]
             full == Len(sink.queue) >= sink.max_buffers
         IN sink' = [sink EXCEPT
                !.next = @ + 1,
                !.queue = IF full THEN Append(Tail(@), a) ELSE Append(@, a),
                !.sizes = Append(@, size),
                !.overflow = IF full
                             THEN [before |-> sink.queue,
                                   after |-> Append(Tail(sink.queue), a)]
                             ELSE @]

\* lines 99-102
appsink_thread_max_packet ==
    /\ sink.au = "init"
    /\ sink' = [sink EXCEPT !.au = "top",
                            !.max_packet = appsink_max_packet(sink.reported)]

\* lines 105-112: the stop flag is sampled at the top of every iteration
appsink_thread_top ==
    /\ sink.au = "top"
    /\ sink' = [sink EXCEPT !.au = IF sink.stop_requested THEN "exited"
                                   ELSE "pull"]

\* lines 114-117: gst_app_sink_try_pull_sample, 100 ms
appsink_pull_sample ==
    /\ sink.au = "pull"
    /\ IF sink.queue = <<>>
       THEN sink' = [sink EXCEPT !.au = "top"]
       ELSE sink' = [sink EXCEPT !.au = "map",
                                 !.cur = Head(sink.queue),
                                 !.queue = Tail(sink.queue),
                                 !.pulled = Append(@, Head(sink.queue).id),
                                 !.checked = FALSE, !.rec_seen = FALSE]

\* lines 119-127: the buffer is mapped and its size tested
appsink_map ==
    /\ sink.au = "map"
    /\ sink' = [sink EXCEPT
           !.au = appsink_after_map(
                      appsink_admits(sink.cur.size, sink.max_packet))]

\* lines 128-130: the recorder slot is read under the recorder lock
appsink_recorder_lock ==
    /\ sink.au = "lock"
    /\ sink.lock = "free"
    /\ sink' = [sink EXCEPT !.lock = "au", !.checked = TRUE,
                            !.rec_seen = sink.recorder,
                            !.au = IF sink.recorder THEN "handle"
                                   ELSE "unlock"]

\* line 131: video_recorder_handle_sample is entered ...
appsink_handle_sample ==
    /\ sink.au = "handle"
    /\ sink' = [sink EXCEPT !.handling = sink.cur.id, !.au = "handled"]

\* ... and returns
appsink_handle_sample_return ==
    /\ sink.au = "handled"
    /\ sink' = [sink EXCEPT !.handling = 0,
                            !.recorded = Append(@, sink.cur.id),
                            !.au = "unlock"]

\* line 133
appsink_recorder_unlock ==
    /\ sink.au = "unlock"
    /\ sink' = [sink EXCEPT !.lock = "free", !.au = "feed"]

\* line 135: video_decoder_feed is entered ...
appsink_feed ==
    /\ sink.au = "feed"
    /\ sink' = [sink EXCEPT !.feeding = sink.cur.id,
                            !.fed = Append(@, sink.cur.id),
                            !.au = "feeding"]

\* ... and returns 0, or non-zero when the decoder is busy
appsink_feed_return ==
    /\ sink.au = "feeding"
    /\ \E feed_rc \in {0, -1} :
         sink' = [sink EXCEPT !.feeding = 0,
                              !.busy = @ \/ feed_rc # 0,
                              !.au = appsink_after_feed(feed_rc)]

\* lines 139-144: gst_buffer_unmap, gst_sample_unref
appsink_unref ==
    /\ sink.au = "unref"
    /\ sink' = [sink EXCEPT !.cur = NoAu, !.au = "top"]

\* pipeline_enable_recording / pipeline_disable_recording on the main thread
\* (lines 537-545, 553-556): the slot changes under the recorder lock
sink_recorder_switch ==
    /\ sink.pc = "playing"
    /\ sink.lock = "free"
    /\ sink' = [sink EXCEPT !.recorder = ~@]

\* pipeline_stop, lines 426-427
sink_stop_requested ==
    /\ sink.pc = "playing"
    /\ ~sink.stop_requested
    /\ sink' = [sink EXCEPT !.stop_requested = TRUE]

SinkInit ==
    /\ LifeInit
    /\ pc = "idle" /\ stack = <<>>
    /\ n_conc = 0 /\ rc2 = 0 /\ refused_in = {}
    /\ MainIdle /\ GuardIdle /\ IngressIdle
    /\ flt = [pc |-> "none"] /\ rec = [pc |-> "none"] /\ cli = [pc |-> "none"]
    /\ rx = [pc |-> "none"] /\ wk = [pc |-> "none"] /\ sg = [pc |-> "none"]
    /\ \E n \in AppsinkMaxBuffers, reported \in DecoderMaxPacket,
          recording \in BOOLEAN :
         sink = [pc |-> "start", appsink_max_buffers |-> n, max_buffers |-> 0,
                 reported |-> reported, max_packet |-> 0, queue |-> <<>>,
                 next |-> 1, sizes |-> <<>>,
                 overflow |-> [before |-> <<>>, after |-> <<>>],
                 au |-> "none", cur |-> NoAu, pulled |-> <<>>,
                 checked |-> FALSE, rec_seen |-> FALSE, lock |-> "free",
                 recorder |-> recording, handling |-> 0, feeding |-> 0,
                 recorded |-> <<>>, fed |-> <<>>, busy |-> FALSE,
                 stop_requested |-> FALSE]

Sink(A) ==
    A /\ UNCHANGED <<lifeVars, concVars, mainVars, guardVars, ingVars, flt,
                     rec, cli, rx, wk, sg>>

SinkNext ==
    \/ Sink(sink_pipeline_start)
    \/ Sink(appsink_enqueue)
    \/ Sink(appsink_thread_max_packet)
    \/ Sink(appsink_thread_top)
    \/ Sink(appsink_pull_sample)
    \/ Sink(appsink_map)
    \/ Sink(appsink_recorder_lock)
    \/ Sink(appsink_handle_sample)
    \/ Sink(appsink_handle_sample_return)
    \/ Sink(appsink_recorder_unlock)
    \/ Sink(appsink_feed)
    \/ Sink(appsink_feed_return)
    \/ Sink(appsink_unref)
    \/ Sink(sink_recorder_switch)
    \/ Sink(sink_stop_requested)

SinkSpec == SinkInit /\ [][SinkNext]_vars

(***************************************************************************)
(* udp_receiver_start / udp_receiver_stop (udp_receiver.c 200-300) called  *)
(* one after the other by the thread that owns the receiver, with the      *)
(* system calls succeeding or failing, and the receive worker. A socket is *)
(* the number socket() returned; sockfd -1 is no socket.                   *)
(***************************************************************************)
\* API calls the owner makes on one receiver
MaxRxCalls == 3

\* Mutant: a running receiver is started again
udp_receiver_start_always(running) == FALSE
\* lines 206-209: `if (ur->running) return 0;`
udp_receiver_start_returns_early(running) == running

\* the UdpReceiver after udp_receiver_create (lines 186-195)
UdpReceiverCreated ==
    [running |-> FALSE, stop_requested |-> FALSE, sockfd |-> -1,
     thread |-> FALSE]

\* the owner calls udp_receiver_start or udp_receiver_stop
rx_call ==
    /\ rx.pc = "idle"
    /\ rx.calls < MaxRxCalls
    /\ \E op \in {"start", "stop"} :
         rx' = [rx EXCEPT !.pc = IF op = "start" THEN "start" ELSE "stop",
                          !.calls = @ + 1,
                          !.op = op,
                          !.failed = {},
                          !.pre = [ur |-> rx.ur, open |-> rx.open,
                                   spawned |-> rx.spawned,
                                   joined |-> rx.joined,
                                   closed |-> rx.closed,
                                   worker |-> rx.worker]]

rx_return(r, ret) == [r EXCEPT !.pc = "idle", !.ret = ret, !.prev_op = r.op]

\* lines 205-211
udp_receiver_start_entry ==
    /\ rx.pc = "start"
    /\ IF udp_receiver_start_returns_early(rx.ur.running)
       THEN rx' = rx_return(rx, 0)
       ELSE rx' = [rx EXCEPT !.ur.stop_requested = FALSE, !.pc = "socket"]

\* lines 213-217: socket()
udp_receiver_start_socket ==
    /\ rx.pc = "socket"
    /\ \/ rx' = rx_return([rx EXCEPT !.failed = @ \cup {"socket"}], -1)
       \/ rx' = [rx EXCEPT !.fd = rx.next_fd, !.next_fd = @ + 1,
                           !.open = @ \cup {rx.next_fd},
                           !.pc = "reuseaddr"]

\* lines 219-222: setsockopt(SO_REUSEADDR); a failure is logged
udp_receiver_start_reuseaddr ==
    /\ rx.pc = "reuseaddr"
    /\ \E ok \in BOOLEAN :
         rx' = [rx EXCEPT !.failed = IF ok THEN @ ELSE @ \cup {"SO_REUSEADDR"},
                          !.pc = "rcvbuf"]

\* lines 225-228: setsockopt(SO_RCVBUF); a failure is logged
udp_receiver_start_rcvbuf ==
    /\ rx.pc = "rcvbuf"
    /\ \E ok \in BOOLEAN :
         rx' = [rx EXCEPT !.failed = IF ok THEN @ ELSE @ \cup {"SO_RCVBUF"},
                          !.pc = "nonblock"]

\* lines 231-236: fcntl(F_GETFL) / fcntl(F_SETFL, O_NONBLOCK); a failure of
\* the second is logged, a failure of the first is not
udp_receiver_start_nonblock ==
    /\ rx.pc = "nonblock"
    /\ \E ok \in BOOLEAN :
         rx' = [rx EXCEPT !.failed = IF ok THEN @ ELSE @ \cup {"O_NONBLOCK"},
                          !.pc = "bind"]

\* lines 240-249: bind(); on failure the descriptor is closed
udp_receiver_start_bind ==
    /\ rx.pc = "bind"
    /\ \/ rx' = rx_return([rx EXCEPT !.failed = @ \cup {"bind"},
                                     !.open = @ \ {rx.fd},
                                     !.closed = Append(@, rx.fd),
                                     !.fd = -1], -1)
       \/ rx' = [rx EXCEPT !.ur.sockfd = rx.fd, !.ur.running = TRUE,
                           !.pc = "spawn"]

\* lines 256-266: g_thread_new
udp_receiver_start_spawn ==
    /\ rx.pc = "spawn"
    /\ \/ rx' = rx_return([rx EXCEPT !.ur.thread = TRUE,
                                     !.spawned = @ + 1,
                                     !.worker = "loop",
                                     !.fd = -1], 0)
       \/ rx' = rx_return([rx EXCEPT !.ur.running = FALSE,
                                     !.ur.sockfd = -1,
                                     !.open = @ \ {rx.fd},
                                     !.closed = Append(@, rx.fd),
                                     !.fd = -1], -1)

\* lines 274-280
udp_receiver_stop_entry ==
    /\ rx.pc = "stop"
    /\ IF udp_receiver_stop_needed(rx.ur)
       THEN rx' = [rx EXCEPT !.ur.stop_requested = TRUE, !.pc = "join"]
       ELSE rx' = rx_return(rx, 0)

\* lines 282-289: shutdown(sockfd), g_thread_join
udp_receiver_stop_join ==
    /\ rx.pc = "join"
    /\ IF rx.ur.thread
       THEN /\ rx.worker = "exited"
            /\ rx' = [rx EXCEPT !.ur.thread = FALSE, !.joined = @ + 1,
                                !.worker = "none", !.pc = "close"]
       ELSE rx' = [rx EXCEPT !.pc = "close"]

\* lines 291-299: close(sockfd), running = FALSE, stop_requested = FALSE
udp_receiver_stop_close ==
    /\ rx.pc = "close"
    /\ rx' = rx_return(
               [rx EXCEPT !.open = IF rx.ur.sockfd >= 0
                                   THEN @ \ {rx.ur.sockfd} ELSE @,
                          !.closed = IF rx.ur.sockfd >= 0
                                     THEN Append(@, rx.ur.sockfd) ELSE @,
                          !.ur.sockfd = -1, !.ur.running = FALSE,
                          !.ur.stop_requested = FALSE], 0)

\* receiver_thread, lines 98-104: the worker samples stop_requested at the
\* top of every iteration
rx_receiver_thread ==
    /\ rx.worker = "loop"
    /\ rx' = [rx EXCEPT !.worker = IF rx.ur.stop_requested THEN "exited"
                                   ELSE "loop"]

RxInit ==
    /\ LifeInit
    /\ pc = "idle" /\ stack = <<>>
    /\ n_conc = 0 /\ rc2 = 0 /\ refused_in = {}
    /\ MainIdle /\ GuardIdle /\ IngressIdle
    /\ flt = [pc |-> "none"] /\ rec = [pc |-> "none"] /\ cli = [pc |-> "none"]
    /\ sink = [pc |-> "none"] /\ wk = [pc |-> "none"] /\ sg = [pc |-> "none"]
    /\ rx = [pc |-> "idle", ur |-> UdpReceiverCreated, calls |-> 0,
             op |-> "none", prev_op |-> "none", failed |-> {}, ret |-> 0,
             fd |-> -1, next_fd |-> 3, open |-> {}, closed |-> <<>>,
             spawned |-> 0, joined |-> 0, worker |-> "none",
             pre |-> [ur |-> UdpReceiverCreated, open |-> {}, spawned |-> 0,
                      joined |-> 0, closed |-> <<>>, worker |-> "none"]]

Rx(A) ==
    A /\ UNCHANGED <<lifeVars, concVars, mainVars, guardVars, ingVars, flt,
                     rec, cli, sink, wk, sg>>

RxNext ==
    \/ Rx(rx_call)
    \/ Rx(udp_receiver_start_entry)
    \/ Rx(udp_receiver_start_socket)
    \/ Rx(udp_receiver_start_reuseaddr)
    \/ Rx(udp_receiver_start_rcvbuf)
    \/ Rx(udp_receiver_start_nonblock)
    \/ Rx(udp_receiver_start_bind)
    \/ Rx(udp_receiver_start_spawn)
    \/ Rx(udp_receiver_stop_entry)
    \/ Rx(udp_receiver_stop_join)
    \/ Rx(udp_receiver_stop_close)
    \/ Rx(rx_receiver_thread)

RxSpec == RxInit /\ [][RxNext]_vars

(***************************************************************************)
(* The worker loops against pipeline_stop (pipeline.c 104-117, 174-214,    *)
(* 416-444; udp_receiver.c 98-123, 269-300)                                *)
(***************************************************************************)
\* what gst_bus_timed_pop hands to the Bus Monitor: NULL after the 100 ms
\* timeout, or a message
BusPopResults == {"NULL", "ERROR", "EOS", "OTHER"}

\* an access to a field of PipelineState made without ps->lock
Unlocked(thread, field, kind) ==
    [thread |-> thread, field |-> field, kind |-> kind]

\* lines 369-375 of pipeline_start: the decoder is started and
\* decoder_running set, then the AU Consumer is created
wk_pipeline_start_decoder ==
    /\ wk.pc = "run" /\ wk.start = "decoder"
    /\ wk' = [wk EXCEPT !.start = "bus_thread", !.decoder = "started",
                        !.decoder_running = TRUE, !.a = "spawned",
                        !.unlocked = @ \cup
                            {Unlocked("caller", "decoder_running", "w")}]

\* lines 377-381
wk_pipeline_start_bus_thread ==
    /\ wk.pc = "run" /\ wk.start = "bus_thread"
    /\ wk' = [wk EXCEPT !.start = "running", !.b = "spawned"]

\* lines 383-384
wk_pipeline_start_running ==
    /\ wk.pc = "run" /\ wk.start = "running"
    /\ wk' = [wk EXCEPT !.start = "returned", !.state = "RUNNING",
                        !.unlocked = @ \cup {Unlocked("caller", "state", "w")}]

\* lines 95-97 of appsink_thread_func
wk_appsink_thread_init ==
    /\ wk.pc = "run" /\ wk.a = "spawned"
    /\ wk.mutex = "free"
    /\ wk' = [wk EXCEPT !.a = "top", !.appsink_thread_running = TRUE]

\* lines 98-104 of udp_receiver.c: the flag is read at the top of every
\* iteration
wk_receiver_thread_top ==
    /\ wk.pc = "run" /\ wk.r = "top"
    /\ wk' = [wk EXCEPT !.r = IF wk.ur_stop_requested THEN "exited"
                                                      ELSE "recv"]

\* lines 106-171: recv and what follows; every path ends the iteration
wk_receiver_thread_recv ==
    /\ wk.pc = "run" /\ wk.r = "recv"
    /\ \E pushed \in BOOLEAN :
         wk' = [wk EXCEPT !.r = "top",
                          !.pushed = IF pushed THEN 1 - wk.pushed
                                               ELSE wk.pushed]

\* lines 105-112 of pipeline.c
wk_appsink_thread_top ==
    /\ wk.pc = "run" /\ wk.a = "top"
    /\ wk.mutex = "free"
    /\ wk' = [wk EXCEPT !.a = IF appsink_thread_breaks(
                                    [stop_requested |-> wk.stop_requested,
                                     decoder_running |-> wk.decoder_running])
                              THEN "exit" ELSE "pull"]

\* lines 114-145: the 100 ms pull and the delivery of the sample
wk_appsink_thread_pull ==
    /\ wk.pc = "run" /\ wk.a = "pull"
    /\ \E sample \in BOOLEAN :
         wk' = [wk EXCEPT !.a = "top",
                          !.pulled = IF sample THEN 1 - wk.pulled
                                               ELSE wk.pulled,
                          !.fed_on = IF sample THEN wk.decoder ELSE @]

\* Mutant: the AU Consumer returns without telling the decoder
wk_appsink_thread_exit_no_eos ==
    /\ wk.pc = "run" /\ wk.a = "exit"
    /\ wk.mutex = "free"
    /\ wk' = [wk EXCEPT !.a = "exited", !.appsink_thread_running = FALSE]

\* lines 147-154: video_decoder_send_eos when ps->decoder is set, then
\* appsink_thread_running = FALSE
wk_appsink_thread_exit ==
    /\ wk.pc = "run" /\ wk.a = "exit"
    /\ wk.mutex = "free"
    /\ wk' = [wk EXCEPT !.a = "exited", !.appsink_thread_running = FALSE,
                        !.eos = IF wk.decoder # "freed" THEN @ + 1 ELSE @,
                        !.eos_on = wk.decoder]

\* lines 159-160: gst_element_get_bus may return NULL
wk_bus_thread_get_bus ==
    /\ wk.pc = "run" /\ wk.b = "spawned"
    /\ \E bus \in {"bus", "NULL"} :
         wk' = [wk EXCEPT !.b = IF bus = "NULL" THEN "nobus" ELSE "start"]

\* lines 170-172
wk_bus_thread_running ==
    /\ wk.pc = "run" /\ wk.b = "start"
    /\ wk.mutex = "free"
    /\ wk' = [wk EXCEPT !.b = "pop", !.bus_thread_running = TRUE]

\* line 175: gst_bus_timed_pop(bus, 100 ms); began_stopping remembers whether
\* stop_requested was already set when this iteration began
wk_bus_thread_pop ==
    /\ wk.pc = "run" /\ wk.b = "pop"
    /\ \E msg \in BusPopResults :
         wk' = [wk EXCEPT !.b = "popped", !.msg = msg,
                          !.began_stopping = wk.stop_requested]

\* lines 176-181 and 209-210: the flag is read when the pop timed out
bus_thread_samples(msg, stop_requested) == msg = "NULL" /\ stop_requested

\* lines 176-213: the popped message decides
wk_bus_thread_handle ==
    /\ wk.pc = "run" /\ wk.b = "popped"
    /\ wk.msg # "OTHER" => wk.mutex = "free"
    /\ wk' = CASE wk.msg = "NULL" ->
                    [wk EXCEPT !.b = IF bus_thread_samples(wk.msg,
                                                           wk.stop_requested)
                                     THEN "exit" ELSE "pop"]
               [] wk.msg = "ERROR" ->
                    [wk EXCEPT !.b = "exit", !.encountered_error = TRUE,
                               !.stop_requested = TRUE]
               [] wk.msg = "EOS" ->
                    [wk EXCEPT !.b = "exit", !.stop_requested = TRUE]
               [] OTHER -> [wk EXCEPT !.b = "pop"]

\* lines 162 and 217: g_mutex_lock(&ps->lock) on the way out
wk_bus_thread_exit_lock ==
    /\ wk.pc = "run" /\ wk.b \in {"nobus", "exit"}
    /\ wk.mutex = "free"
    /\ wk' = [wk EXCEPT !.mutex = "bus",
                        !.b = IF wk.b = "nobus" THEN "nobus_locked"
                                                ELSE "exit_locked"]

\* Mutant: the Bus Monitor leaves without waking the supervisor
wk_bus_thread_exit_silent ==
    /\ wk.pc = "run" /\ wk.b \in {"nobus_locked", "exit_locked"}
    /\ wk' = [wk EXCEPT !.b = "exited", !.mutex = "free",
                        !.bus_thread_running = FALSE,
                        !.encountered_error = @ \/ wk.b = "nobus_locked"]

\* lines 163-166 and 218-220: the flags, g_cond_signal, g_mutex_unlock
wk_bus_thread_exit ==
    /\ wk.pc = "run" /\ wk.b \in {"nobus_locked", "exit_locked"}
    /\ wk' = [wk EXCEPT !.b = "exited", !.mutex = "free",
                        !.bus_thread_running = FALSE,
                        !.encountered_error = @ \/ wk.b = "nobus_locked",
                        !.signal = IF wk.mutex = "bus" THEN "locked"
                                                       ELSE "unlocked"]

\* lines 421-428 of pipeline_stop
wk_pipeline_stop_entry ==
    /\ wk.pc = "run" /\ wk.stop = "none" /\ wk.start = "returned"
    /\ wk.mutex = "free"
    /\ wk' = [wk EXCEPT !.stop = "graph", !.state = "STOPPING",
                        !.stop_requested = TRUE]

\* lines 430-433
wk_pipeline_stop_graph ==
    /\ wk.pc = "run" /\ wk.stop = "graph"
    /\ wk' = [wk EXCEPT !.stop = "ingress", !.gst_state = "NULL"]

\* udp_receiver_stop, lines 273-284 of udp_receiver.c
wk_udp_receiver_stop ==
    /\ wk.pc = "run" /\ wk.stop = "ingress"
    /\ wk' = [wk EXCEPT !.stop = "ingress_join", !.ur_stop_requested = TRUE]

\* lines 286-299: g_thread_join(ur->thread)
wk_udp_receiver_stop_join ==
    /\ wk.pc = "run" /\ wk.stop = "ingress_join"
    /\ wk.r = "exited"
    /\ wk' = [wk EXCEPT !.stop = "appsink", !.r = "joined",
                        !.ur_stop_requested = FALSE]

\* stop_appsink_thread, lines 391-396
wk_stop_appsink_thread ==
    /\ wk.pc = "run" /\ wk.stop = "appsink"
    /\ wk.a = "exited"
    /\ wk' = [wk EXCEPT !.stop = "bus_wait", !.a = "joined"]

\* stop_bus_thread, lines 403-410: the wait ends when bus_thread_running is
\* FALSE or wait_ms has passed
wk_stop_bus_thread_wait ==
    /\ wk.pc = "run" /\ wk.stop = "bus_wait"
    /\ wk.mutex = "free"
    /\ \E timed_out \in BOOLEAN :
         /\ ~timed_out => ~wk.bus_thread_running
         /\ wk' = [wk EXCEPT !.stop = "bus_join"]

\* line 412: g_thread_join(ps->bus_thread)
wk_stop_bus_thread_join ==
    /\ wk.pc = "run" /\ wk.stop = "bus_join"
    /\ wk.b = "exited"
    /\ wk' = [wk EXCEPT !.stop = "cleanup", !.b = "joined"]

\* cleanup_pipeline, lines 473-477: video_decoder_stop
wk_cleanup_decoder_stop ==
    /\ wk.pc = "run" /\ wk.stop = "cleanup"
    /\ wk.decoder = "started"
    /\ wk' = [wk EXCEPT !.decoder = "stopped", !.decoder_running = FALSE,
                        !.unlocked = @ \cup
                            {Unlocked("caller", "decoder_running", "r"),
                             Unlocked("caller", "decoder_running", "w")}]

\* lines 478-485 and 442-443: deinit and free, then STOPPED
wk_cleanup_decoder_free ==
    /\ wk.pc = "run" /\ wk.stop = "cleanup"
    /\ wk.decoder = "stopped"
    /\ wk' = [wk EXCEPT !.decoder = "freed", !.stop = "returned",
                        !.state = "STOPPED",
                        !.unlocked = @ \cup {Unlocked("caller", "state", "w")}]

\* pipeline_start at line 369: the ingress is started, the graph PLAYING and
\* the decoder initialised
WorkerInit ==
    /\ LifeInit
    /\ pc = "idle" /\ stack = <<>>
    /\ n_conc = 0 /\ rc2 = 0 /\ refused_in = {}
    /\ MainIdle /\ GuardIdle /\ IngressIdle
    /\ flt = [pc |-> "none"] /\ rec = [pc |-> "none"] /\ cli = [pc |-> "none"]
    /\ sink = [pc |-> "none"] /\ rx = [pc |-> "none"] /\ sg = [pc |-> "none"]
    /\ wk = [pc |-> "run", state |-> "STOPPED", start |-> "decoder",
             stop |-> "none", mutex |-> "free", signal |-> "no",
             unlocked |-> {},
             stop_requested |-> FALSE, decoder_running |-> FALSE,
             encountered_error |-> FALSE, bus_thread_running |-> FALSE,
             appsink_thread_running |-> FALSE,
             ur_stop_requested |-> FALSE, gst_state |-> "PLAYING",
             r |-> "top", a |-> "none", b |-> "none", msg |-> "NULL",
             began_stopping |-> FALSE,
             pushed |-> 0, pulled |-> 0, decoder |-> "initialized",
             eos |-> 0, eos_on |-> "none", fed_on |-> "none"]

Worker(A) ==
    A /\ UNCHANGED <<lifeVars, concVars, mainVars, guardVars, ingVars, flt,
                     rec, cli, sink, rx, sg>>

WorkerNext ==
    \/ Worker(wk_pipeline_start_decoder)
    \/ Worker(wk_pipeline_start_bus_thread)
    \/ Worker(wk_pipeline_start_running)
    \/ Worker(wk_appsink_thread_init)
    \/ Worker(wk_bus_thread_get_bus)
    \/ Worker(wk_bus_thread_running)
    \/ Worker(wk_bus_thread_exit_lock)
    \/ Worker(wk_receiver_thread_top)
    \/ Worker(wk_receiver_thread_recv)
    \/ Worker(wk_appsink_thread_top)
    \/ Worker(wk_appsink_thread_pull)
    \/ Worker(wk_appsink_thread_exit)
    \/ Worker(wk_bus_thread_pop)
    \/ Worker(wk_bus_thread_handle)
    \/ Worker(wk_bus_thread_exit)
    \/ Worker(wk_pipeline_stop_entry)
    \/ Worker(wk_pipeline_stop_graph)
    \/ Worker(wk_udp_receiver_stop)
    \/ Worker(wk_udp_receiver_stop_join)
    \/ Worker(wk_stop_appsink_thread)
    \/ Worker(wk_stop_bus_thread_wait)
    \/ Worker(wk_stop_bus_thread_join)
    \/ Worker(wk_cleanup_decoder_stop)
    \/ Worker(wk_cleanup_decoder_free)

WorkerSpec == WorkerInit /\ [][WorkerNext]_vars

(***************************************************************************)
(* The recording signals (main.c 158-165) and the part of the main loop    *)
(* that serves them (main.c 243-278), on a RUNNING pipeline.               *)
(***************************************************************************)
\* SIGUSR1 and SIGUSR2 signals the signal thread takes during one sleep of
\* the main loop
MaxRecordSignals == 2

RecordSignals == {"SIGUSR1", "SIGUSR2"}

\* signal_thread_func, lines 158-165: the flag of the signal is incremented.
\* received lists the signals taken while main is in poll()
sg_signal_thread_func ==
    /\ sg.pc = "run"
    /\ \E sig \in RecordSignals :
         /\ sg.pos = "poll" => Len(sg.received) < MaxRecordSignals
         /\ sg.pos # "poll" => ~sg.late
         /\ sg' = [sg EXCEPT
                !.g_start_record_flag = IF sig = "SIGUSR1" THEN @ + 1 ELSE @,
                !.g_stop_record_flag = IF sig = "SIGUSR2" THEN @ + 1 ELSE @,
                !.received = IF sg.pos = "poll" THEN Append(@, sig) ELSE @,
                !.late = @ \/ sg.pos # "poll"]

\* lines 244-250: poll(&pfd, 1, 200) returns, g_exit_flag is not set
sg_main_poll ==
    /\ sg.pc = "run" /\ sg.pos = "poll"
    /\ sg' = [sg EXCEPT !.pos = "record_on"]

\* lines 252-265
sg_main_record_on ==
    /\ sg.pc = "run" /\ sg.pos = "record_on"
    /\ IF sg.g_start_record_flag > 0
       THEN \E new_ok \in BOOLEAN :
              sg' = [sg EXCEPT
                      !.g_start_record_flag = 0, !.enable = TRUE,
                      !.recorder = pipeline_enable_recording(
                                       [recorder |-> sg.recorder],
                                       new_ok).recorder,
                      !.new_failed = ~new_ok,
                      !.pos = "record_off"]
       ELSE sg' = [sg EXCEPT !.pos = "record_off"]

\* lines 267-278
sg_main_record_off ==
    /\ sg.pc = "run" /\ sg.pos = "record_off"
    /\ IF sg.g_stop_record_flag > 0
       THEN sg' = [sg EXCEPT
                     !.g_stop_record_flag = 0, !.enable = FALSE,
                     !.recorder = pipeline_disable_recording(
                                      [recorder |-> sg.recorder]).recorder,
                     !.pos = "served"]
       ELSE sg' = [sg EXCEPT !.pos = "served"]

\* lines 280-300: no restart, the pipeline goes on running; next iteration
sg_main_next_iteration ==
    /\ sg.pc = "run" /\ sg.pos = "served"
    /\ sg' = [sg EXCEPT !.pos = "poll", !.received = <<>>, !.late = FALSE,
                        !.new_failed = FALSE]

SignalInit ==
    /\ LifeInit
    /\ pc = "idle" /\ stack = <<>>
    /\ n_conc = 0 /\ rc2 = 0 /\ refused_in = {}
    /\ MainIdle /\ GuardIdle /\ IngressIdle
    /\ flt = [pc |-> "none"] /\ rec = [pc |-> "none"] /\ cli = [pc |-> "none"]
    /\ sink = [pc |-> "none"] /\ rx = [pc |-> "none"] /\ wk = [pc |-> "none"]
    /\ \E enable \in BOOLEAN, new_ok \in BOOLEAN :
         \* lines 237-241: --record-video enables recording at the start
         sg = [pc |-> "run", pos |-> "poll", g_start_record_flag |-> 0,
               g_stop_record_flag |-> 0, enable |-> enable,
               recorder |-> enable /\ new_ok, received |-> <<>>,
               late |-> FALSE, new_failed |-> FALSE]

Signal(A) ==
    A /\ UNCHANGED <<lifeVars, concVars, mainVars, guardVars, ingVars, flt,
                     rec, cli, sink, rx, wk>>

SignalNext ==
    \/ Signal(sg_signal_thread_func)
    \/ Signal(sg_main_poll)
    \/ Signal(sg_main_record_on)
    \/ Signal(sg_main_record_off)
    \/ Signal(sg_main_next_iteration)

SignalSpec == SignalInit /\ [][SignalNext]_vars

(***************************************************************************)
(* Properties of the lifecycle                                             *)
(***************************************************************************)
BusAlive == bpc \in {"spawned", "loop", "exit"}
AppsinkAlive == apc \in {"spawned", "loop", "exit"}
ReceiverAlive == rpc = "loop"

\* Nothing of a pipeline is held through ps and no worker exists.
NothingOwned ==
    /\ ~ps.pipeline /\ ~ps.appsink /\ ~ps.udp_receiver /\ ~ps.decoder
    /\ ~ps.bus_thread /\ ~ps.appsink_thread
    /\ bpc = "none" /\ apc = "none" /\ rpc = "none"
    /\ ~ur.sock_open /\ ~ur.thread

StartStep == pc = "start_entry" /\ pc' # "start_entry"
ConcurrentStartStep == n_conc' # n_conc

\* C1: a pipeline_start issued while the state is RUNNING or STOPPING returns
\* -1 and changes neither the state nor any resource of the pipeline (graph,
\* ingress, decoder, workers, recorder); and a pipeline_start that goes on to
\* build does so only when no pipeline is owned, so there is never more than
\* one.
C1_StartRefusedUnlessStopped ==
    [][ /\ (StartStep /\ ps.state # "STOPPED")
            => (rc' = -1 /\ pc' = Head(stack)
                /\ UNCHANGED <<ps, ur, bpc, apc, rpc, gst_state, loc>>)
        /\ (ConcurrentStartStep /\ ps.state # "STOPPED")
            => (rc2' = -1
                /\ UNCHANGED <<ps, ur, bpc, apc, rpc, gst_state, loc>>)
        /\ (StartStep /\ pc' = "start_build") => NothingOwned
      ]_vars

C1_Witness == refused_in = {"RUNNING", "STOPPING"}

\* C2: the pipeline state changes only STOPPED->RUNNING, RUNNING->STOPPING and
\* STOPPING->STOPPED.
AllowedTransitions ==
    {<<"STOPPED", "RUNNING">>, <<"RUNNING", "STOPPING">>,
     <<"STOPPING", "STOPPED">>}
C2_OnlyLifecycleTransitions ==
    [][ps'.state # ps.state => <<ps.state, ps'.state>> \in AllowedTransitions]_vars

C4_PollLeavesLiveMonitor ==
    [][ (pc = "poll_entry" /\ pc' # "poll_entry" /\ ps.state = "RUNNING"
         /\ BusAlive)
            => (pc' = Head(stack) /\ UNCHANGED <<ps, bpc, apc, rpc>>) ]_vars

\* C6: when the graph construction fails, pipeline_start returns its error
\* with everything the call created destroyed.
C6_BuildFailureDestroysAll ==
    pc = "start_fail_ret" => loc = {}

\* C7: a pipeline_start that fails (after the graph is built or before)
\* terminates: it returns -1 to main with the state STOPPED, the workers it
\* had started joined and the socket and decoder released.
C7_FailedStartReturns ==
    (pc = "start_fail")
        ~> (pc \in {"m_started", "m_restarted"} /\ rc = -1
            /\ ps.state = "STOPPED" /\ NothingOwned)

(***************************************************************************)
(* Properties of the supervisor loop                                       *)
(***************************************************************************)
\* C5: once the exit intent is set while the pipeline is RUNNING, the process
\* eventually ends (the main loop sees the flag, stops the pipeline, exits):
\* main never stays blocked in a restart or in pipeline_poll_child.
C5_ExitIntentEndsProcess ==
    (g_exit_flag /\ ps.state = "RUNNING" /\ exit_status = "running")
        ~> (exit_status # "running")

(***************************************************************************)
(* Properties of the single-instance guard                                 *)
(***************************************************************************)
Passed == {p \in Procs : proc[p].pc = "passed"}

\* C8: while one instance that passed ensure_single_instance is alive, no
\* other process passes it: at most one live process has passed the guard.
C8_GuardMutuallyExclusive == Cardinality(Passed) <= 1

(***************************************************************************)
(* Properties of the ingress                                               *)
(***************************************************************************)
\* C9: a datagram received while the pending-bytes level of the source is
\* above 8 MiB is dropped without a push (no step raises a level that is
\* above the watermark), and the level never exceeds 8 MiB plus one datagram.
C9_LevelGate ==
    /\ [](ing.level <= Watermark + UDP_MAX_PACKET)
    /\ [][ing.level > Watermark => ing'.level <= ing.level]_vars

\* C10: with every buffer of the pool in flight, the receive loop does not
\* wait for one to come back: it goes on with a freshly allocated buffer.
C10_ExhaustedPoolFallsBack ==
    [][ (ing.pc = "acquire" /\ ing.pool_env = "ok"
         /\ InFlight = POOL_MAX_BUFFERS /\ ing'.pc # "acquire")
            => (ing'.pc = "copy" /\ ing'.buf = "fresh") ]_vars

(***************************************************************************)
(* Properties of the payload filter                                        *)
(***************************************************************************)
\* C11: an empty datagram is never pushed; with expected_pt >= 0 a datagram
\* is pushed only if its length is at least 2 and (byte[1] & 0x7F), as an
\* integer, equals expected_pt; with expected_pt < 0 every non-empty datagram
\* is accepted.
C11_FilterAcceptsExactly ==
    flt.pc = "done" =>
        /\ flt.pushed => flt.len > 0
        /\ (flt.pushed /\ flt.expected_pt >= 0)
              => (flt.len >= 2 /\ (flt.b1 % 128) = flt.expected_pt)
        /\ (flt.expected_pt < 0 /\ flt.len > 0) => flt.pushed

(***************************************************************************)
(* Properties of the recorder slot                                         *)
(***************************************************************************)
\* C12: handle_sample and get_stats run only with the recorder lock held by
\* the calling thread, on the writer that is installed and not freed; so a
\* writer is never freed during a handle_sample on it and a writer removed
\* by pipeline_disable_recording gets no further handle_sample.
C12_RecorderUsedUnderLock ==
    /\ rec.call_on # 0 =>
          (rec.lock = "au" /\ rec.call_on = rec.recorder
           /\ rec.call_on \notin Freed)
    /\ rec.stats_on # 0 =>
          (rec.lock = "ctl" /\ rec.stats_on = rec.recorder
           /\ rec.stats_on \notin Freed)

\* a sample is being delivered to the second writer after the first one was
\* disabled and freed
C12_Witness ==
    rec.call_on = 2 /\ rec.freed = <<1>> /\ rec.prev_op = "disable"

\* C13: pipeline_enable_recording called while a writer is installed returns
\* 0 with the installed writer unchanged and the writer it constructed freed:
\* exactly one writer, the first, is installed.
C13_SecondEnableDiscarded ==
    (rec.ctl = "idle" /\ rec.op = "enable" /\ rec.pre # 0 /\ rec.made # 0)
        => /\ rec.ret = 0
           /\ rec.recorder = rec.pre
           /\ rec.made \in Freed
           /\ (1..(rec.next_id - 1)) \ Freed = {rec.recorder}

\* enable has returned from its second call in a row
C13_Witness ==
    /\ rec.ctl = "idle" /\ rec.op = "enable" /\ rec.prev_op = "enable"
    /\ rec.pre = 1 /\ rec.made = 2

\* C14: pipeline_disable_recording with no writer installed changes nothing
\* and frees nothing, and no writer is ever freed twice (two calls in a row
\* free the writer once).
C14_DisableIdempotent ==
    /\ [](\A i, j \in 1..Len(rec.freed) :
             rec.freed[i] = rec.freed[j] => i = j)
    /\ [][(rec.op = "disable" /\ rec.ctl \in {"disable", "disable_free"}
           /\ rec.pre = 0)
             => (rec'.recorder = 0 /\ rec'.freed = rec.freed)]_vars

\* the second of two disables in a row has returned, the writer freed once
C14_Witness ==
    /\ rec.ctl = "idle" /\ rec.op = "disable" /\ rec.prev_op = "disable"
    /\ rec.pre = 0 /\ rec.freed = <<1>>

\* C15: a SIGHUP restart is a pipeline_stop followed by a pipeline_start
\* (the start is issued when the stop has returned with everything released),
\* and when the start has succeeded a recorder is installed exactly if
\* cfg.record.enable is set and the writer could be constructed.
C15_RestartReattachesRecorder ==
    /\ [](pc = "m_restart_start" =>
             (last_call = "stop" /\ ps.state = "STOPPED" /\ NothingOwned
              /\ ~ps.recorder))
    /\ [][(pc = "m_restarted" /\ pc' # "m_restarted" /\ rc = 0)
             => (ps'.recorder <=> (cfg_record_enable /\ rc' = 0))]_vars

\* a restart whose stop timed out waiting for the Bus Monitor has succeeded
\* and the recorder is attached again
C15_Witness ==
    /\ pc = "m_poll" /\ last_call = "start" /\ wait_timed_out
    /\ ps.state = "RUNNING" /\ ps.recorder /\ cfg_record_enable

\* C19: the exit status is 0 on --help or a clean exit, 2 on a CLI parse
\* error and 1 on a runtime failure; in particular, once pipeline_start has
\* failed during a SIGHUP restart the process ends with status 1 (or is
\* forced out with 128 by the stop deadline), never with 0.
C19_RestartFailureExitsOne ==
    []((pc = "m_restarted" /\ rc # 0)
          => [](exit_status \in {"running", "exit_1", "exit_128"}))

\* C20: every pipeline_stop of the main program runs under the hard deadline:
\* while main is inside the stop of a restart or inside the final stop, the
\* deadline can expire and end the process with status 128.
InMainStop ==
    /\ stack # <<>>
    /\ stack[Len(stack)] \in {"m_restart_start", "m_stopped"}
    /\ exit_status = "running"
C20_EveryStopUnderDeadline ==
    InMainStop => ENABLED Prog(main_stop_deadline)

(***************************************************************************)
(* Properties of the configuration                                         *)
(***************************************************************************)
\* the mode the documentation gives for each alias
AliasMode(a) ==
    CASE a \in {W_standard, W_default} -> RECORD_MODE_STANDARD
      [] a \in {W_sequential, W_append} -> RECORD_MODE_SEQUENTIAL
      [] a \in {W_fragmented, W_fragment} -> RECORD_MODE_FRAGMENTED

\* C18: parsing the name of a mode gives the mode back; every alias in any
\* letter case parses to its mode; any other name is rejected and leaves the
\* output mode unchanged.
C18_RecordModeRoundTrip ==
    cli.pc = "mode_done" =>
        /\ cli.m \in RecordModes => (cli.rc = 0 /\ cli.out = cli.m)
        /\ cli.base # <<>> => (cli.rc = 0 /\ cli.out = AliasMode(cli.base))
        /\ cli.base = <<>> => (cli.rc = -1 /\ cli.out = cli.out0)

\* "APPEND" has been parsed into a slot that held another mode
C18_Witness ==
    /\ cli.pc = "mode_done"
    /\ cli.name = [i \in 1..Len(W_append) |-> toupper(W_append[i])]
    /\ cli.out0 = RECORD_MODE_FRAGMENTED /\ cli.out = RECORD_MODE_SEQUENTIAL

\* the keys the command line and the INI file share (README, "INI
\* configuration")
OverlappingKeys ==
    {"card_path", "connector_name", "plane_id", "udp_port", "vid_pt",
     "appsink_max_buffers", "gst_log", "record_enable", "record_output_path",
     "record_mode"}

\* what each INI file of the model says, key by key, read as the
\* documentation describes the format
IniSays(f) ==
    CASE f = "full.ini" ->
           [card_path |-> "ini_card", connector_name |-> "ini_conn",
            plane_id |-> 22, udp_port |-> 22, vid_pt |-> 22,
            appsink_max_buffers |-> 22, gst_log |-> 1, record_enable |-> 1,
            record_output_path |-> "ini_out",
            record_mode |-> RECORD_MODE_SEQUENTIAL]
      [] f = "flat.ini" ->
           [record_enable |-> 1, record_mode |-> RECORD_MODE_FRAGMENTED,
            connector_name |-> "ini_conn", gst_log |-> 0]
      [] OTHER -> << >>

\* the option gives the key on the command line
OptGives(o, key) ==
    \/ o.key = key
    \/ key = "record_enable" /\ o.tokens[1] = "--record-video"
OptValue(o, key) == IF o.key = key THEN o.val ELSE 1

\* the INI file named by a --config option gives the key
IniGives(o, key) == o.key = "config" /\ key \in DOMAIN IniSays(o.val)

CliProvides(opts, key) == \E i \in 1..Len(opts) : OptGives(opts[i], key)
IniProvides(opts, key) == \E i \in 1..Len(opts) : IniGives(opts[i], key)

\* the last option of the command line that gives the key, and the last
\* --config whose file gives it
LastCli(opts, key) ==
    CHOOSE i \in 1..Len(opts) :
        /\ OptGives(opts[i], key)
        /\ \A j \in (i + 1)..Len(opts) : ~OptGives(opts[j], key)
LastIni(opts, key) ==
    CHOOSE i \in 1..Len(opts) :
        /\ IniGives(opts[i], key)
        /\ \A j \in (i + 1)..Len(opts) : ~IniGives(opts[j], key)

\* defaults -> INI -> CLI
Effective(opts, key) ==
    IF CliProvides(opts, key) THEN OptValue(opts[LastCli(opts, key)], key)
    ELSE IF IniProvides(opts, key)
         THEN IniSays(opts[LastIni(opts, key)].val)[key]
         ELSE cfg_defaults[key]

ParsedOk == cli.pc = "cli_done" /\ cli.rc = 0

\* C16: for every overlapping key and every position of --config, the
\* configuration parse_cli returns holds the value the command line gave for
\* the key when it gave one, and the value of the INI file otherwise; a
\* --no-record-video that is the command line's last word on recording
\* leaves recording disabled even when the INI file enables it.
C16_CliWins ==
    ParsedOk =>
        /\ \A key \in OverlappingKeys :
               cli.cfg[key] = Effective(cli.opts, key)
        /\ (/\ CliProvides(cli.opts, "record_enable")
            /\ cli.opts[LastCli(cli.opts, "record_enable")].tokens
                   = <<"--no-record-video">>)
              => cli.cfg.record_enable = 0

\* --plane-id precedes --config, the file sets plane_id and enables
\* recording, and --no-record-video is given
C16_Witness ==
    /\ ParsedOk
    /\ cli.argv = <<"--plane-id", "11", "--config", "full.ini",
                    "--no-record-video">>
    /\ cli.cfg.plane_id = 11 /\ cli.cfg.udp_port = 22
    /\ cli.cfg.record_enable = 0
    /\ cli.cfg.record_output_path = "ini_out"

\* C17: when neither the command line nor the INI file sets a record mode,
\* the effective record mode is STANDARD.
C17_DefaultModeStandard ==
    (/\ ParsedOk
     /\ ~CliProvides(cli.opts, "record_mode")
     /\ ~IniProvides(cli.opts, "record_mode"))
        => cli.cfg.record_mode = RECORD_MODE_STANDARD

(***************************************************************************)
(* Properties of the running pipeline                                      *)
(***************************************************************************)
\* the Bus Monitor has taken an error or end-of-stream message off the bus
\* while the pipeline is RUNNING
BusPostedRunning == bpc = "exit" /\ ps.state = "RUNNING"

\* no SIGHUP restart is pending or under way, and the 5 s deadline of the
\* final stop has not expired
RestartUnderWay ==
    \/ pc = "m_restart_start"
    \/ \E i \in 1..Len(stack) : stack[i] = "m_restart_start"
NoRestartNoDeadline ==
    ~g_restart_flag /\ ~RestartUnderWay /\ exit_status # "exit_128"

\* C21: after the graph posted an error or end-of-stream while the pipeline
\* is RUNNING, and unless a SIGHUP restarts it, pipeline_start is not called
\* again, the pipeline is torn down to STOPPED and the process exits with
\* status 0.
C21_BusMessageEndsProcess ==
    []((BusPostedRunning /\ []NoRestartNoDeadline)
         => /\ [](pc # "start_entry")
            /\ <>[](ps.state = "STOPPED" /\ exit_status = "exit_0"))

\* the process has exited 0 after pipeline_poll_child tore down a pipeline
\* whose Bus Monitor had recorded an error message
C21_Witness ==
    /\ exit_status = "exit_0" /\ ps.state = "STOPPED"
    /\ had_error /\ ps.stop_requested /\ last_call = "stop"
    /\ ~g_restart_flag

(***************************************************************************)
(* Properties of the AU path                                               *)
(***************************************************************************)
\* C22: the capacity of the AU sink equals the configured
\* appsink_max_buffers, a positive integer; the sink never holds more AUs
\* than that, and an AU arriving at a full sink replaces the oldest one.
C22_SinkCapacityIsConfigured ==
    sink.pc = "playing" =>
        /\ sink.appsink_max_buffers > 0
        /\ sink.max_buffers = sink.appsink_max_buffers
        /\ Len(sink.queue) <= sink.appsink_max_buffers
        /\ sink.overflow.after # <<>> =>
              /\ Len(sink.overflow.after) = Len(sink.overflow.before)
              /\ \A i \in 1..(Len(sink.overflow.after) - 1) :
                    sink.overflow.after[i] = sink.overflow.before[i + 1]

Increasing(s) == \A i, j \in 1..Len(s) : i < j => s[i] < s[j]
Last(s) == s[Len(s)]

\* C23: while the decoder is fed an AU the recorder is not inside
\* handle_sample, and if a recorder was installed when the AU Consumer looked
\* at the slot, its handle_sample for that AU has returned; while the
\* recorder handles an AU the decoder has not been fed it; both receive the
\* AUs in the order the sink produced them.
C23_RecorderBeforeDecoder ==
    /\ sink.au \in {"feed", "feeding"} =>
          /\ sink.handling = 0 /\ sink.checked
          /\ sink.rec_seen =>
                (sink.recorded # <<>> /\ Last(sink.recorded) = sink.cur.id)
    /\ sink.handling # 0 =>
          /\ sink.feeding = 0
          /\ \A i \in 1..Len(sink.fed) : sink.fed[i] # sink.handling
    /\ Increasing(sink.recorded) /\ Increasing(sink.fed)

\* the decoder is being fed the second AU the recorder has handled
C23_Witness ==
    /\ sink.au = "feeding" /\ sink.rec_seen
    /\ Len(sink.recorded) = 2 /\ Len(sink.fed) = 2
    /\ Last(sink.recorded) = sink.feeding

\* the size limit the AU Consumer has to apply
MaxPacketLimit == IF sink.reported = 0 THEN 1024 * 1024 ELSE sink.reported
Admissible(id) == sink.sizes[id] > 0 /\ sink.sizes[id] <= MaxPacketLimit
Range(s) == {s[i] : i \in 1..Len(s)}

RxUntouched ==
    /\ rx.ur = rx.pre.ur /\ rx.open = rx.pre.open
    /\ rx.spawned = rx.pre.spawned /\ rx.joined = rx.pre.joined
    /\ rx.closed = rx.pre.closed
RxReturned(op) == rx.pc = "idle" /\ rx.prev_op = op

\* C25: udp_receiver_stop on a receiver that is not running changes nothing;
\* udp_receiver_start on a running receiver returns 0 and creates no socket
\* and no worker; after a stop has returned the socket is closed and the
\* worker joined, and over any sequence of calls no socket is closed twice
\* and no worker joined twice.
C25_StopIdempotentStartNoop ==
    /\ (RxReturned("stop") /\ ~rx.pre.ur.running) => RxUntouched
    /\ (RxReturned("start") /\ rx.pre.ur.running) =>
          (rx.ret = 0 /\ RxUntouched)
    /\ RxReturned("stop") =>
          (rx.open = {} /\ rx.joined = rx.spawned /\ ~rx.ur.running
           /\ rx.ur.sockfd = -1 /\ rx.worker = "none")
    /\ \A i, j \in 1..Len(rx.closed) : i # j => rx.closed[i] # rx.closed[j]
    /\ rx.joined <= rx.spawned
    /\ Cardinality(rx.open) <= 1 /\ rx.spawned - rx.joined <= 1

\* start, start again on the running receiver, then stop
C25_Witness ==
    /\ RxReturned("stop") /\ rx.calls = 3
    /\ rx.spawned = 1 /\ rx.joined = 1 /\ Len(rx.closed) = 1
    /\ rx.pre.ur.running

\* C26: when a socket operation of udp_receiver_start has failed (socket,
\* SO_REUSEADDR, SO_RCVBUF, non-blocking mode or bind), the call returns an
\* error, has spawned no worker, and leaves the receiver not running with no
\* descriptor open.
C26_SocketFailureFailsStart ==
    (RxReturned("start") /\ rx.failed # {}) =>
        /\ rx.ret # 0
        /\ rx.spawned = rx.pre.spawned
        /\ ~rx.ur.running
        /\ rx.open = {}

\* C27: a SIGUSR1 handled while recording is enabled leaves the installed
\* writer and cfg.record.enable as they were and constructs no writer; a
\* SIGUSR2 handled while recording is disabled changes nothing either.
C27_RepeatedSignalIgnored ==
    /\ (rec.ctl = "idle" /\ rec.op = "sigusr1" /\ rec.was_enabled) =>
          (rec.recorder = rec.pre /\ rec.enable /\ rec.made = 0)
    /\ (rec.ctl = "idle" /\ rec.op = "sigusr2" /\ ~rec.was_enabled) =>
          (rec.recorder = rec.pre /\ ~rec.enable /\ rec.made = 0)

(***************************************************************************)
(* Properties of the order of start and stop                               *)
(***************************************************************************)
\* the calling thread is inside pipeline_stop (or the cleanup_pipeline it
\* calls)
InPipelineStop ==
    \/ pc \in {"stop_entry", "stop_graph", "stop_ingress", "stop_ingress_join",
               "stop_appsink", "stop_bus_wait", "stop_bus_join",
               "stop_cleanup", "stop_stopped"}
    \/ stack # <<>> /\ Head(stack) = "stop_stopped"

\* C28: inside pipeline_stop on a pipeline that is not STOPPED nothing is
\* torn down before STOPPING and stop_requested are set; the ingress is
\* stopped after the graph went to NULL, the AU Consumer is joined after
\* that, then the Bus Monitor; then the ingress is destroyed, the graph
\* unreferenced, the decoder freed, the recorder freed, and only then is the
\* state STOPPED. pipeline_stop on a STOPPED pipeline changes nothing.
C28_StopOrder ==
    /\ [][InPipelineStop =>
            /\ (\/ gst_state' # gst_state \/ ur'.running # ur.running
                \/ ps'.appsink_thread # ps.appsink_thread
                \/ ps'.bus_thread # ps.bus_thread
                \/ cleanup_recorder(cleanup_decoder(cleanup_graph(ps')))
                     # cleanup_recorder(cleanup_decoder(cleanup_graph(ps)))
                     /\ ps'.state = ps.state
                     /\ ps'.bus_thread_running = ps.bus_thread_running
                     /\ ps'.appsink_thread_running = ps.appsink_thread_running
                     /\ ps'.stop_requested = ps.stop_requested
                     /\ ps'.encountered_error = ps.encountered_error)
                 => (ps.state = "STOPPING" /\ ps.stop_requested)
            /\ (ur.running /\ ~ur'.running) => gst_state = "NULL"
            /\ (ps.appsink_thread /\ ~ps'.appsink_thread) => ~ur.running
            /\ (ps.bus_thread /\ ~ps'.bus_thread) => ~ps.appsink_thread
            /\ (ps.udp_receiver /\ ~ps'.udp_receiver) =>
                  (~ps.bus_thread /\ ~ps.appsink_thread /\ ~ur.running)
            /\ (ps.pipeline /\ ~ps'.pipeline) => ~ps.udp_receiver
            /\ (ps.decoder /\ ~ps'.decoder) => ~ps.pipeline
            /\ (ps.recorder /\ ~ps'.recorder) => ~ps.decoder
            /\ (ps.state # "STOPPED" /\ ps'.state = "STOPPED") =>
                  (~ps.recorder /\ ~ps.decoder /\ ~ps.pipeline
                   /\ ~ps.udp_receiver /\ ~ps.bus_thread
                   /\ ~ps.appsink_thread)]_vars
    /\ [][(pc = "stop_entry" /\ ps.state = "STOPPED") =>
            (ps' = ps /\ ur' = ur /\ gst_state' = gst_state
             /\ <<bpc, apc, rpc>>' = <<bpc, apc, rpc>>
             /\ pc' = Head(stack))]_vars

\* a pipeline_stop on a running, recording pipeline has released everything
\* but the recorder
C28_Witness ==
    /\ pc = "cleanup_recorder" /\ Head(stack) = "stop_stopped"
    /\ ps.state = "STOPPING" /\ ps.recorder
    /\ ~ps.decoder /\ ~ps.pipeline /\ ~ps.udp_receiver

\* what a running pipeline consists of: the graph, the ingress and its
\* worker, a started decoder, and the handles of the two worker threads
RunningParts ==
    /\ ps.pipeline /\ ps.appsink /\ gst_state = "PLAYING"
    /\ ps.udp_receiver /\ ur.running /\ ur.thread
    /\ ps.decoder /\ ps.decoder_initialized /\ ps.decoder_running
    /\ ps.appsink_thread /\ ps.bus_thread

\* pipeline_poll_child is past its join of the Bus Monitor and has not yet
\* set the state (lines 509-511)
InPollTeardown ==
    \/ pc = "poll_stopped"
    \/ stack # <<>> /\ Head(stack) = "poll_stopped"

\* the steps of pipeline_start happen in the stated order: each one finds the
\* results of the ones before it
StartInOrder ==
    [][/\ (gst_state # "PLAYING" /\ gst_state' = "PLAYING") =>
              (ps.pipeline /\ ps.udp_receiver /\ ur.running /\ ur.thread)
       /\ (~ps.decoder_running /\ ps'.decoder_running) =>
              (gst_state = "PLAYING" /\ ur.running)
       /\ (~ps.appsink_thread /\ ps'.appsink_thread) =>
              (ps.decoder_running /\ gst_state = "PLAYING" /\ ur.running)
       /\ (~ps.bus_thread /\ ps'.bus_thread) =>
              (ps.appsink_thread /\ ps.decoder_running)
       /\ (ps.state # "RUNNING" /\ ps'.state = "RUNNING") =>
              (RunningParts /\ rc' = 0 /\ last_call' = "start")]_vars

C30_WorkersSampleEveryIteration ==
    [][wk.pc = "run" /\ wk.stop # "none" =>
         /\ (wk.r = "top" /\ wk.ur_stop_requested /\ wk'.r # wk.r) =>
                wk'.r = "exited"
         /\ (wk.a = "top" /\ wk.stop_requested /\ wk'.a # wk.a) =>
                wk'.a = "exit"
         /\ (wk.b = "popped" /\ wk.began_stopping /\ wk'.b # wk.b) =>
                wk'.b = "exit"]_vars

\* C31: the AU Consumer goes on to pull exactly when it has read neither
\* stop_requested nor a decoder that is not running, and leaves its loop
\* otherwise; it sends EOS to the decoder once, when it has left the loop:
\* never before a feed, and always to a decoder that is still started; the
\* decoder is stopped only after that.
C31_ConsumerEndsWithOneEos ==
    /\ [][wk.pc = "run" =>
            /\ (wk.a = "top" /\ wk'.a # wk.a) =>
                  IF wk.stop_requested \/ ~wk.decoder_running
                  THEN wk'.a = "exit" ELSE wk'.a = "pull"
            /\ wk'.pulled # wk.pulled => (wk.eos = 0 /\ wk.a = "pull")
            /\ wk'.eos # wk.eos =>
                  (wk.eos = 0 /\ wk.a = "exit" /\ wk.decoder = "started")
            /\ (wk.decoder = "started" /\ wk'.decoder # "started") =>
                  (wk.eos = 1 /\ wk.a = "joined")]_vars
    /\ [](wk.pc = "run" =>
            /\ wk.eos <= 1
            /\ wk.a \in {"exited", "joined"} => wk.eos = 1
            /\ wk.fed_on \in {"none", "started"}
            /\ wk.eos_on \in {"none", "started"})

\* the AU Consumer fed the decoder, saw the stop, sent its EOS and was
\* joined, and the decoder has been freed
C31_Witness ==
    /\ wk.pc = "run" /\ wk.stop = "returned" /\ wk.decoder = "freed"
    /\ wk.eos = 1 /\ wk.fed_on = "started" /\ wk.a = "joined"

\* C32: the Bus Monitor, handling an error message, sets encountered_error
\* and stop_requested and leaves its loop; handling end-of-stream it sets
\* stop_requested, leaves encountered_error as it was and leaves its loop;
\* handling any other message it changes no flag and pops again; and when it
\* returns, on either exit path, it has cleared bus_thread_running and
\* signalled the condition variable, holding ps->lock.
C32_BusMonitorFlags ==
    /\ [][(wk.pc = "run" /\ wk.b = "popped" /\ wk'.b # wk.b) =>
            CASE wk.msg = "ERROR" ->
                   /\ wk'.encountered_error /\ wk'.stop_requested
                   /\ wk'.b = "exit"
              [] wk.msg = "EOS" ->
                   /\ wk'.stop_requested
                   /\ wk'.encountered_error = wk.encountered_error
                   /\ wk'.b = "exit"
              [] wk.msg = "OTHER" ->
                   /\ wk'.stop_requested = wk.stop_requested
                   /\ wk'.encountered_error = wk.encountered_error
                   /\ wk'.bus_thread_running = wk.bus_thread_running
                   /\ wk'.b = "pop"
              [] OTHER -> TRUE]_vars
    /\ [][(wk.pc = "run" /\ wk.b # "exited" /\ wk'.b = "exited") =>
            /\ wk.mutex = "bus"
            /\ ~wk'.bus_thread_running
            /\ wk'.signal = "locked"]_vars
    /\ [](wk.pc = "run" /\ wk.b \in {"exited", "joined"} =>
            ~wk.bus_thread_running /\ wk.signal = "locked")

\* the Bus Monitor handled an error and returned, with no stop under way
C32_Witness ==
    /\ wk.pc = "run" /\ wk.b = "exited" /\ wk.msg = "ERROR"
    /\ wk.encountered_error /\ wk.stop_requested /\ wk.signal = "locked"
    /\ wk.stop = "none"

\* C33: every read and every write of state, stop_requested,
\* encountered_error, bus_thread_running, appsink_thread_running and
\* decoder_running is made holding ps->lock.
C33_SharedFieldsUnderMutex ==
    wk.pc = "run" => wk.unlocked = {}

\* C34: the buffer the receive loop has acquired leaves its hands exactly
\* once: either the push hands it to the source or it is released; once
\* pushed (or released) the loop holds no reference to it until it acquires
\* the next one, and no iteration starts while a buffer is still held.
C34_BufferPushedOrReleasedOnce ==
    /\ [](ing.pc # "none" =>
            /\ ing.pushes + ing.releases <= 1
            /\ ing.buf # "none" => ing.pushes + ing.releases = 0
            /\ ing.pc \in {"loop", "exited", "acquire"} => ing.buf = "none")
    /\ [][(ing.pc # "none" /\ ing.buf # "none" /\ ing'.buf = "none") =>
            ing'.pushes + ing'.releases = 1]_vars
    /\ [][(ing.pc # "none" /\ ing.pushes + ing.releases = 1
           /\ ing'.buf = "none") =>
            (ing'.pushes = ing.pushes /\ ing'.releases = ing.releases)]_vars

\* a pool buffer was released on a failed map while earlier pushes are
\* still queued in the source
C34_Witness ==
    /\ ing.pc = "loop" /\ ing.releases = 1 /\ ing.pushes = 0
    /\ ing.pool_env = "ok" /\ ing.queued > 0

\* C35: as long as the AU Consumer has not been joined the decoder exists,
\* is initialised and is running; the steps that stop, deinitialise and free
\* the decoder are taken only with the AU Consumer joined, on every path
\* through cleanup_pipeline.
C35_ConsumerJoinedBeforeDecoderGoes ==
    /\ [](apc # "none" =>
            ps.decoder /\ ps.decoder_initialized /\ ps.decoder_running)
    /\ [][(\/ ps.decoder_running /\ ~ps'.decoder_running
           \/ ps.decoder_initialized /\ ~ps'.decoder_initialized
           \/ ps.decoder /\ ~ps'.decoder) =>
            (apc = "none" /\ ~ps.appsink_thread)]_vars

\* pipeline_poll_child's teardown of a started pipeline has joined the AU
\* Consumer and released the decoder
C35_Witness ==
    /\ pc = "cleanup_recorder" /\ Head(stack) = "poll_stopped"
    /\ ps.state = "RUNNING" /\ ~ps.decoder /\ apc = "none"

\* C36: whenever the Bus Monitor has returned (and is not yet joined),
\* stop_requested is set, whichever way it left.
C36_MonitorExitSetsStop ==
    bpc = "exited" => ps.stop_requested

(***************************************************************************)
(* Properties of the recording signals                                     *)
(***************************************************************************)
\* SIGUSR1 and SIGUSR2 were both received during the sleep of this
\* iteration, and no recording signal came while it was being served
BothReceived ==
    /\ sg.pc = "run" /\ sg.pos = "served" /\ ~sg.late
    /\ \E i, j \in 1..Len(sg.received) :
         sg.received[i] = "SIGUSR1" /\ sg.received[j] = "SIGUSR2"

\* C37: when both signals were received between two polls, the recording
\* state after the iteration is the one the last of them asked for: SIGUSR1
\* last leaves recording enabled with a writer installed (if one could be
\* constructed), SIGUSR2 last leaves it disabled with none.
C37_LastRecordSignalWins ==
    BothReceived =>
        IF sg.received[Len(sg.received)] = "SIGUSR1"
        THEN sg.enable /\ (sg.recorder \/ sg.new_failed)
        ELSE ~sg.enable /\ ~sg.recorder

\* C38: while the pipeline is STOPPED no recorder is installed; in
\* particular a pipeline_enable_recording called on a STOPPED pipeline
\* returns without having installed a writer.
C38_StoppedMeansNoRecorder ==
    (rec.ctl = "stopped" /\ rec.state = "STOPPED") => rec.recorder = 0

(***************************************************************************)
(* Properties of the INI loader                                            *)
(***************************************************************************)
\* what the documentation says a key of a section holds
KeyKind(section, key) ==
    IF section = "record"
    THEN CASE key = "enable" -> "bool"
           [] key \in {"output_path", "path"} -> "string"
           [] key = "mode" -> "mode"
           [] OTHER -> "unknown"
    ELSE CASE key \in {"plane_id", "udp_port", "vid_pt", "video_payload_type",
                       "appsink_max_buffers"} -> "int"
           [] key \in {"gst_log", "record.enable"} -> "bool"
           [] key \in {"card_path", "connector", "connector_name",
                       "record.output_path", "record.path"} -> "string"
           [] key = "record.mode" -> "mode"
           [] OTHER -> "unknown"

\* a line that cannot be applied: no '=', an unknown key, or a value that is
\* no integer, boolean or record mode where one is wanted
BadLine(section, l) ==
    \/ l.kind = "noequals"
    \/ /\ l.kind = "pair"
       /\ LET k == KeyKind(section, l.key) IN
          \/ k = "unknown"
          \/ k = "int" /\ l.value \notin {"11", "22"}
          \/ k = "bool" /\ l.value \notin {"true", "yes", "1", "false", "no", "0"}
          \/ k = "mode" /\ l.value \notin {"fragmented", "fragment", "append",
                                           "STANDARD"}

\* the configuration after a good line of the generated files
Applied(section, l, cfg) ==
    CASE l = Pair("udp_port", "22") -> [cfg EXCEPT !.udp_port = 22]
      [] l = Pair("gst_log", "true") -> [cfg EXCEPT !.gst_log = 1]
      [] l = Pair("enable", "yes") -> [cfg EXCEPT !.record_enable = 1]
      [] l = Pair("record.mode", "fragment") ->
            [cfg EXCEPT !.record_mode = RECORD_MODE_FRAGMENTED]
      [] l = Pair("path", "ini_out") ->
            [cfg EXCEPT !.record_output_path = "ini_out"]
      [] OTHER -> cfg

\* the options of a command line are all --config options
OnlyConfigOptions ==
    \A i \in 1..Len(cli.opts) : cli.opts[i].key = "config"

\* C39: a bad line of an INI file leaves the configuration as it was, the
\* lines after it are applied, and cfg_load_file returns 0 after the last
\* line; it returns -1 only when the file cannot be opened, and parse_cli
\* given nothing but --config options fails only then.
C39_BadLinesSkipped ==
    /\ [][cli.pc = "ini_line" /\ cli.i <= Len(cli.lines) =>
            /\ cli'.pc = "ini_line" /\ cli'.i = cli.i + 1
            /\ IF BadLine(cli.section, cli.lines[cli.i])
               THEN cli'.cfg = cli.cfg
               ELSE cli'.cfg = Applied(cli.section, cli.lines[cli.i],
                                       cli.cfg)]_vars
    /\ [](cli.pc = "ini_done" =>
            /\ cli.rc = (IF cli.opens THEN 0 ELSE -1)
            /\ cli.opens => cli.i = Len(cli.lines) + 1)
    /\ [](cli.pc = "cli_done" /\ OnlyConfigOptions =>
            (cli.rc = -1 <=>
               \E i \in 1..Len(cli.opts) : cli.opts[i].val = "gone.ini"))

\* a file of two bad lines and a good one has been loaded: the good one took
\* effect and nothing else changed
C39_Witness ==
    /\ cli.pc = "ini_done" /\ cli.rc = 0
    /\ cli.lines = <<Pair("udp_port", "x"), NoEquals, Pair("udp_port", "22")>>
    /\ cli.cfg = [cfg_defaults EXCEPT !.udp_port = 22]

====
